---------------------------- MODULE Spec2Model ----------------------------
(***************************************************************************)
(* Model of the takvim calendar service: the event classifiers             *)
(* (lib/classification.ts, lib/eventCategories.ts), the calendar source    *)
(* adapter (lib/googleCalendar.ts) and the calendar route                  *)
(* (app/api/calendar/route.ts: mapping, merge loop, availability gaps,     *)
(* surgery counters, final sort).                                          *)
(*                                                                         *)
(* Text is modelled at the level of characters: a string is a sequence of  *)
(* characters and a character is a one-letter TLA+ string, or a name such  *)
(* as "U+0131" for a character outside ASCII.  Time is modelled in whole   *)
(* minutes since an epoch that falls on a Sunday 00:00 UTC.                *)
(***************************************************************************)
EXTENDS Integers, Sequences, FiniteSets, TLC

(***************************************************************************)
(* Characters                                                              *)
(***************************************************************************)
KNIFE == "U+1F52A"        \* the surgery marker glyph
INFO == "U+2139"          \* the information glyph
VS16 == "U+FE0F"          \* variation selector that may follow INFO
DOTLESS_I == "U+0131"     \* Turkish small dotless i
CAP_I_DOT == "U+0130"     \* Turkish capital I with dot above
COMB_DOT == "U+0307"      \* combining dot above
S_CED == "U+015F"         \* s with cedilla
CAP_S_CED == "U+015E"
G_BREVE == "U+011F"       \* g with breve
CAP_G_BREVE == "U+011E"
O_UML == "U+00F6"
CAP_O_UML == "U+00D6"
U_UML == "U+00FC"
CAP_U_UML == "U+00DC"
C_CED == "U+00E7"
CAP_C_CED == "U+00C7"

UpperAscii == <<"A","B","C","D","E","F","G","H","I","J","K","L","M",
                "N","O","P","Q","R","S","T","U","V","W","X","Y","Z">>
LowerAscii == <<"a","b","c","d","e","f","g","h","i","j","k","l","m",
                "n","o","p","q","r","s","t","u","v","w","x","y","z">>
UpperTurkish == <<CAP_S_CED, CAP_G_BREVE, CAP_O_UML, CAP_U_UML, CAP_C_CED>>
LowerTurkish == <<S_CED, G_BREVE, O_UML, U_UML, C_CED>>

Range(f) == {f[i] : i \in DOMAIN f}
IndexOf(seq, c) == CHOOSE i \in DOMAIN seq : seq[i] = c

Digit == {"0","1","2","3","4","5","6","7","8","9"}
UpperAsciiSet == Range(UpperAscii)
LowerAsciiSet == Range(LowerAscii)
UpperTurkishSet == Range(UpperTurkish)
LowerTurkishSet == Range(LowerTurkish)
\* \p{L}: the letters of the modelled alphabet
Letter == UpperAsciiSet \cup LowerAsciiSet \cup UpperTurkishSet \cup LowerTurkishSet
              \cup {DOTLESS_I, CAP_I_DOT}

IsDigit(c) == c \in Digit
IsSpace(c) == c = " "
IsLetter(c) == c \in Letter

\* String.prototype.toLowerCase of one character (locale independent):
\* capital I with dot lowers to "i" followed by a combining dot.
LowerChar(c) ==
    IF c \in UpperAsciiSet THEN <<LowerAscii[IndexOf(UpperAscii, c)]>>
    ELSE IF c \in UpperTurkishSet THEN <<LowerTurkish[IndexOf(UpperTurkish, c)]>>
    ELSE IF c = CAP_I_DOT THEN <<"i", COMB_DOT>>
    ELSE <<c>>

\* toLocaleLowerCase('tr-TR') of one character: I -> dotless i, dotted capital -> i
LowerCharTR(c) ==
    IF c = "I" THEN <<DOTLESS_I>>
    ELSE IF c = CAP_I_DOT THEN <<"i">>
    ELSE LowerChar(c)

\* String.prototype.toUpperCase of one character
UpperChar(c) ==
    IF c \in LowerAsciiSet THEN UpperAscii[IndexOf(LowerAscii, c)]
    ELSE IF c \in LowerTurkishSet THEN UpperTurkish[IndexOf(LowerTurkish, c)]
    ELSE IF c = DOTLESS_I THEN "I"
    ELSE c

\* toLocaleUpperCase('tr-TR') of one character: i -> dotted capital I
UpperCharTR(c) == IF c = "i" THEN CAP_I_DOT ELSE UpperChar(c)

(***************************************************************************)
(* Strings (sequences of characters)                                       *)
(***************************************************************************)
RECURSIVE toLowerCase(_)
toLowerCase(s) == IF s = <<>> THEN <<>> ELSE LowerChar(Head(s)) \o toLowerCase(Tail(s))

RECURSIVE toLocaleLowerCaseTR(_)
toLocaleLowerCaseTR(s) ==
    IF s = <<>> THEN <<>> ELSE LowerCharTR(Head(s)) \o toLocaleLowerCaseTR(Tail(s))

\* does pattern p occur in s at position i (1-based)?
MatchAt(s, p, i) ==
    /\ i >= 1
    /\ i + Len(p) - 1 <= Len(s)
    /\ \A k \in 1..Len(p) : s[i + k - 1] = p[k]

startsWith(s, p) == MatchAt(s, p, 1)
includes(s, p) == \E i \in 1..(Len(s) + 1) : MatchAt(s, p, i)
\* first position of p in s, or 0 (String.prototype.indexOf, 1-based)
indexOf(s, p) ==
    IF includes(s, p)
    THEN CHOOSE i \in 1..(Len(s) + 1) :
            MatchAt(s, p, i) /\ \A j \in 1..(i - 1) : ~MatchAt(s, p, j)
    ELSE 0

\* s[i..] / s[..i]
From(s, i) == SubSeq(s, i, Len(s))
Upto(s, i) == SubSeq(s, 1, i)

\* end (exclusive) of the maximal run of characters satisfying Cls from position i
RunEnd(s, i, Cls(_)) ==
    CHOOSE e \in i..(Len(s) + 1) :
        /\ \A k \in i..(e - 1) : Cls(s[k])
        /\ (e = Len(s) + 1 \/ ~Cls(s[e]))

RECURSIVE trimStart(_)
trimStart(s) == IF s # <<>> /\ IsSpace(Head(s)) THEN trimStart(Tail(s)) ELSE s
RECURSIVE trimEnd(_)
trimEnd(s) == IF s # <<>> /\ IsSpace(s[Len(s)]) THEN trimEnd(Upto(s, Len(s) - 1)) ELSE s
trim(s) == trimEnd(trimStart(s))

\* s.split(/\s+/): the pieces between maximal runs of white space; a leading or
\* trailing run yields an empty first or last piece, and "" splits to [""]
RECURSIVE splitWs(_, _)
splitWs(s, cur) ==
    IF s = <<>> THEN <<cur>>
    ELSE IF IsSpace(Head(s))
         THEN <<cur>> \o splitWs(trimStart(s), <<>>)
         ELSE splitWs(Tail(s), Append(cur, Head(s)))
splitSpaces(s) == splitWs(s, <<>>)

RECURSIVE joinWith(_, _)
joinWith(parts, sep) ==
    IF parts = <<>> THEN <<>>
    ELSE IF Len(parts) = 1 THEN parts[1]
    ELSE parts[1] \o sep \o joinWith(Tail(parts), sep)

\* s.replace(/re/g, rep): scan left to right; ends[i] is the position after the
\* match of the expression at i, or 0 when it does not match there
RECURSIVE replaceScan(_, _, _, _)
replaceScan(s, i, ends, rep) ==
    IF i > Len(s) THEN <<>>
    ELSE IF ends[i] > i THEN rep \o replaceScan(s, ends[i], ends, rep)
    ELSE <<s[i]>> \o replaceScan(s, i + 1, ends, rep)
replaceAll(s, MatchEnd(_, _), rep) ==
    replaceScan(s, 1, [i \in 1..Len(s) |-> MatchEnd(s, i)], rep)

\* s.replace(/c/g, rep) for one character c
RECURSIVE replaceChar(_, _, _)
replaceChar(s, c, rep) ==
    IF s = <<>> THEN <<>>
    ELSE (IF Head(s) = c THEN rep ELSE <<Head(s)>>) \o replaceChar(Tail(s), c, rep)

(***************************************************************************)
(* lib/classification.ts: normalizeName                                    *)
(***************************************************************************)
TEL_KEY == <<"t","e","l">>
YAS_KEY == <<"y","a","s">>
YAS_KEY_TR == <<"y","a",S_CED>>
IPTAL_KEY == <<"i","p","t","a","l">>
cutKeywords ==
    {
        <<"y","a","b","a","n","c",DOTLESS_I>>, <<"o","r","t","a","k">>, <<"r","i","n","o">>,
        <<"k","o","s","t","a">>, <<"r","e","v","i","z","y","o","n">>, <<"s","e","k","o","n","d","e","r">>,
        <<"s","e","p","t","o","r","i","n">>, <<"t","i","p","l","a","s","t","i">>, <<"k","b","b">>,
        <<"i","m","p","l","a","n","t">>, <<"i","y"," ">>, <<CAP_I_DOT,"y"," ">> }
ignoredWords ==
    {
        <<"a","n","e","s","t","e","z","i">>, <<"p","c","r">>, <<"y","e","n","i","d","o","g","a","n">>, <<"y","a","t","i","s">>,
        <<"y","a","t",DOTLESS_I,S_CED>>, <<"p","l","a","s","t","i">>, <<"p","l","a","s","t","y">>, <<"o","p">>,
        <<"b","i","l","g","i">>, <<"f","o","r","m","u">>, <<"h","a","z",DOTLESS_I,"r","l",DOTLESS_I,"k">>, <<"d","o","s","y","a">>,
        <<"d","r">>, <<"p","r","o","t","o","k","o","l">>, <<"v","e">>, <<"i","y">> }

IsDigitOrSpace(c) == IsDigit(c) \/ IsSpace(c)
IsColonOrDot(c) == c \in {":", "."}

\* /tel\s*[:.]?\s*[\d\s]+/ at position i: the position after the match, or 0.
\* The greedy match takes the white space after "tel", an optional ":" or ".",
\* and the longest run of digits and white space; when nothing follows the
\* punctuation it backtracks to the white space before it.
TelMatchEnd(s, i) ==
    IF ~MatchAt(s, TEL_KEY, i) THEN 0
    ELSE LET a == i + 3
             w1 == RunEnd(s, a, IsSpace)
             punct == w1 <= Len(s) /\ IsColonOrDot(s[w1])
             r == RunEnd(s, w1 + 1, IsDigitOrSpace)
             rb == RunEnd(s, a, IsDigitOrSpace)
         IN IF punct
            THEN (IF r > w1 + 1 THEN r ELSE IF w1 > a THEN w1 ELSE 0)
            ELSE (IF rb > a THEN rb ELSE 0)

\* /(yas|yaş)\s*[:.]?\s*\d+/ at position i
YasMatchEnd(s, i) ==
    IF ~(MatchAt(s, YAS_KEY, i) \/ MatchAt(s, YAS_KEY_TR, i)) THEN 0
    ELSE LET a == i + 3
             w1 == RunEnd(s, a, IsSpace)
             punct == w1 <= Len(s) /\ IsColonOrDot(s[w1])
             w2 == IF punct THEN RunEnd(s, w1 + 1, IsSpace) ELSE w1
             d == RunEnd(s, w2, IsDigit)
         IN IF d > w2 THEN d ELSE 0

\* /iptal/ at position i
IptalMatchEnd(s, i) == IF MatchAt(s, IPTAL_KEY, i) THEN i + 5 ELSE 0

\* /\([^)]*\)/ at position i
ParenMatchEnd(s, i) ==
    IF s[i] = "(" /\ \E j \in (i + 1)..Len(s) : s[j] = ")"
    THEN 1 + (CHOOSE j \in (i + 1)..Len(s) :
                 s[j] = ")" /\ \A k \in (i + 1)..(j - 1) : s[k] # ")")
    ELSE 0

\* /\d{1,2}[:.]\d{2}/ at position i
ClockAt(s, i, nd) ==
    /\ i + nd + 2 <= Len(s)
    /\ \A k \in i..(i + nd - 1) : IsDigit(s[k])
    /\ IsColonOrDot(s[i + nd])
    /\ IsDigit(s[i + nd + 1]) /\ IsDigit(s[i + nd + 2])
ClockMatchEnd(s, i) ==
    IF ClockAt(s, i, 2) THEN i + 5 ELSE IF ClockAt(s, i, 1) THEN i + 4 ELSE 0

\* /(yabanci|ortak|...|iy\s|Iy\s).*$/ : cut from the first keyword to the end
CutAt(s) ==
    LET hits == {i \in 1..Len(s) : \E k \in cutKeywords : MatchAt(s, k, i)}
    IN IF hits = {} THEN s
       ELSE Upto(s, (CHOOSE i \in hits : \A j \in hits : i <= j) - 1)

\* step 5: Turkish letters to their base Latin letters
FoldChar(c) ==
    IF c = DOTLESS_I THEN "i"
    ELSE IF c = S_CED THEN "s"
    ELSE IF c = C_CED THEN "c"
    ELSE IF c = O_UML THEN "o"
    ELSE IF c = U_UML THEN "u"
    ELSE IF c = G_BREVE THEN "g"
    ELSE c
\* step 6: /[^\p{L}\s\d]/gu -> ' '
StripChar(c) == IF IsLetter(c) \/ IsSpace(c) \/ IsDigit(c) THEN c ELSE " "

capitalizeTR(w) == <<UpperCharTR(w[1])>> \o Tail(w)

\* steps 5 and 6 over the whole string
FoldAll(s) == [i \in 1..Len(s) |-> FoldChar(s[i])]
StripAll(s) == [i \in 1..Len(s) |-> StripChar(s[i])]
\* .filter(w => w.length > 1 && !ignoredWords.includes(w))
KeepWord(w) == Len(w) > 1 /\ w \notin ignoredWords
\* .map(w => w.charAt(0).toLocaleUpperCase('tr-TR') + w.slice(1)).join(' ')
CapitalizeWords(words) == joinWith([i \in 1..Len(words) |-> capitalizeTR(words[i])], <<" ">>)

normalizeName(name) ==
    LET n0 == toLocaleLowerCaseTR(name)
        n1 == replaceAll(n0, TelMatchEnd, <<" ">>)
        n2 == replaceAll(n1, YasMatchEnd, <<" ">>)
        n3 == CutAt(n2)
        n4a == replaceAll(n3, IptalMatchEnd, <<" ">>)
        n4b == replaceChar(n4a, KNIFE, <<" ">>)
        n4c == replaceAll(n4b, ParenMatchEnd, <<" ">>)
        n4 == replaceAll(n4c, ClockMatchEnd, <<" ">>)
        words == splitSpaces(trim(StripAll(FoldAll(n4))))
    IN CapitalizeWords(SelectSeq(words, KeepWord))

(***************************************************************************)
(* Arguments of the classifiers                                            *)
(***************************************************************************)
NoColor == "undefined"        \* color argument absent
\* A time is a whole number of minutes since the epoch (Sunday 00:00 UTC); the two
\* values below stand for an absent argument and for a string that does not parse.
NoTime == -1
InvalidTime == -2
RedColors == {"#dc2127", "#DC2127", "11"}

\* start && end, both parsing to a time value (otherwise the difference is NaN,
\* and every comparison with it is false)
HasDuration(start, end) == start >= 0 /\ end >= 0
\* (endDate.getTime() - startDate.getTime()) / (1000 * 60)
DurationMinutes(start, end) == end - start

\* /^\d{1,2}[:.]\d{2}/.test(s)
TimePrefix(s) == Len(s) >= 1 /\ ClockMatchEnd(s, 1) > 0
\* /^[kK]\d?/.test(s)
CheckupPrefix(s) == Len(s) >= 1 /\ s[1] \in {"k", "K"}
\* /^\d+\.?\d*m\s/.test(s)
MonthPrefix(s) ==
    LET d1 == RunEnd(s, 1, IsDigit)
        d2 == IF d1 <= Len(s) /\ s[d1] = "." THEN RunEnd(s, d1 + 1, IsDigit) ELSE d1
    IN d1 > 1 /\ d2 + 1 <= Len(s) /\ s[d2] = "m" /\ IsSpace(s[d2 + 1])
\* /^[mM]\s/.test(s)
ExamPrefix(s) == Len(s) >= 2 /\ s[1] \in {"m", "M"} /\ IsSpace(s[2])
\* /^op\s/i.test(s)
OpPrefix(s) == Len(s) >= 3 /\ s[1] \in {"o", "O"} /\ s[2] \in {"p", "P"} /\ IsSpace(s[3])

(***************************************************************************)
(* lib/classification.ts: categorizeEvent (the classifier processEvents    *)
(* calls)                                                                  *)
(***************************************************************************)
blockedKeywords ==
    {
        <<"x","x","x">>, <<"i","z","i","n">>, <<"k","o","n","g","r","e">>, <<"t","o","p","l","a","n","t","i">>,
        <<"o","f","f">>, <<"y","o","k","u","m">>, <<"c","u","m","a","r","t","e","s","i">>, <<"p","a","z","a","r">> }
ignorePrefixes ==
    {
        <<"i","p","t">>, <<"e","r","t">>, <<"i","p","t","a","l">>,
        <<"e","r","t","e","l","e","n","d","i">>, <<"b","i","l","g","i">> }
KW_AMELIYAT == <<"a","m","e","l","i","y","a","t">>
KW_SURGERY == <<"s","u","r","g","e","r","y">>
KW_MUAYENE == <<"m","u","a","y","e","n","e">>
KW_KONTROL == <<"k","o","n","t","r","o","l">>
KW_ONLINE == <<"o","n","l","i","n","e">>
KW_EXAM == <<"e","x","a","m">>

SurgeryThreshold == 45

\* the rule chain without the colour rule
classifyNormalizedNoColor(title, normalizedTitle, lowerNorm, color, start, end) ==
    LET durationMinutes == IF HasDuration(start, end) THEN DurationMinutes(start, end) ELSE 0
        isSurgeryCandidate ==
            \/ includes(title, <<KNIFE>>)
            \/ includes(normalizedTitle, KW_AMELIYAT)
            \/ includes(normalizedTitle, KW_SURGERY)
            \/ (TimePrefix(title) /\ ~includes(normalizedTitle, KW_MUAYENE))
    IN IF \E k \in blockedKeywords : includes(lowerNorm, k) THEN "blocked"
       ELSE IF includes(title, <<INFO, VS16>>) \/ includes(title, <<INFO>>) THEN "ignore"
       ELSE IF \E p \in ignorePrefixes : startsWith(lowerNorm, toLowerCase(p)) THEN "ignore"
       ELSE IF isSurgeryCandidate
            THEN (IF durationMinutes >= SurgeryThreshold THEN "surgery" ELSE "appointment")
       ELSE IF \/ CheckupPrefix(title)
               \/ MonthPrefix(normalizedTitle)
               \/ includes(normalizedTitle, KW_KONTROL)
               \/ OpPrefix(title)
            THEN "checkup"
       ELSE IF \/ ExamPrefix(title)
               \/ includes(normalizedTitle, KW_ONLINE)
               \/ includes(normalizedTitle, KW_MUAYENE)
               \/ includes(normalizedTitle, KW_EXAM)
            THEN "appointment"
       ELSE "appointment"

\* the rule chain of categorizeEvent on a title and its normalised form
classifyNormalized(title, normalizedTitle, lowerNorm, color, start, end) ==
    LET durationMinutes == IF HasDuration(start, end) THEN DurationMinutes(start, end) ELSE 0
        isSurgeryCandidate ==
            \/ includes(title, <<KNIFE>>)
            \/ includes(normalizedTitle, KW_AMELIYAT)
            \/ includes(normalizedTitle, KW_SURGERY)
            \/ (TimePrefix(title) /\ ~includes(normalizedTitle, KW_MUAYENE))
    IN IF \E k \in blockedKeywords : includes(lowerNorm, k) THEN "blocked"
       ELSE IF color \in RedColors THEN "ignore"
       ELSE IF includes(title, <<INFO, VS16>>) \/ includes(title, <<INFO>>) THEN "ignore"
       ELSE IF \E p \in ignorePrefixes : startsWith(lowerNorm, toLowerCase(p)) THEN "ignore"
       ELSE IF isSurgeryCandidate
            THEN (IF durationMinutes >= SurgeryThreshold THEN "surgery" ELSE "appointment")
       ELSE IF \/ CheckupPrefix(title)
               \/ MonthPrefix(normalizedTitle)
               \/ includes(normalizedTitle, KW_KONTROL)
               \/ OpPrefix(title)
            THEN "checkup"
       ELSE IF \/ ExamPrefix(title)
               \/ includes(normalizedTitle, KW_ONLINE)
               \/ includes(normalizedTitle, KW_MUAYENE)
               \/ includes(normalizedTitle, KW_EXAM)
            THEN "appointment"
       ELSE "appointment"

\* normalizedTitle.toLowerCase(), computed once for the keyword and prefix tests
withLowered(title, normalizedTitle, color, start, end) ==
    classifyNormalized(title, normalizedTitle, toLowerCase(normalizedTitle), color, start, end)

categorizeEvent(title, color, start, end) ==
    withLowered(title, normalizeName(title), color, start, end)

(***************************************************************************)
(* lib/eventCategories.ts: categorizeEvent                                 *)
(***************************************************************************)
Categories ==
    {"Surgery", "Control", "Exam", "Online", "Busy", "Available", "Cancelled", "Anesthesia"}
KW_XXX == <<"x","x","x">>
KW_ANEST == <<"a","n","e","s","t">>
cancelledPrefixes ==
    {
        <<"i","p","t">>, <<"e","r","t">>, <<"i","p","t","a","l">>,
        <<"e","r","t","e","l","e","n","d","i">>, <<"b","i","l","g","i">>, <<INFO,VS16>>,
        <<INFO>> }
busyKeywords ==
    {
        <<"x","x","x">>, <<"i","z","i","n">>,
        <<"k","o","n","g","r","e">>, <<"t","o","p","l","a","n","t",DOTLESS_I>>,
        <<"o","f","f">>, <<"y","o","k","u","m">>,
        <<"c","u","m","a","r","t","e","s","i">>, <<"p","a","z","a","r">>,
        <<"h","a","s","t","a"," ","g",O_UML,"r","e","b","i","l","i","r","i","z">>, <<"h","a","s","t","a"," ","g",O_UML,"r","m","e">>,
        <<"h","a","s","t","a"," ","g",O_UML,"r","e","l","i","m">>, <<C_CED,DOTLESS_I,"k",DOTLESS_I,S_CED>>,
        <<"y","o","k">>, <<"g","i","t","m","e","m">>,
        <<"v","i","z","i","t","e">> }
onlineKeywords ==
    {
        <<"o","n","l","i","n","e">>, <<"m","e","e","t">>, <<"g",O_UML,"r",U_UML,S_CED,"m","e">>,
        <<"v","i","d","e","o">>, <<"o","p","d">> }

ImplicitSurgeryMinutes == 60

\* categorizeEvent whose last resort is Available
categorizeEventDefaultAvailable(title, color, start, end) ==
    LET lowerTitle == toLowerCase(title)
        turkishLowerTitle == toLocaleLowerCaseTR(title)
    IN IF includes(turkishLowerTitle, KW_XXX) THEN "Busy"
       ELSE IF startsWith(turkishLowerTitle, KW_ANEST) THEN "Anesthesia"
       ELSE IF color \in RedColors THEN "Cancelled"
       ELSE IF \E p \in cancelledPrefixes : startsWith(turkishLowerTitle, p) THEN "Cancelled"
       ELSE IF \E k \in busyKeywords : includes(turkishLowerTitle, k) THEN "Busy"
       ELSE IF \E k \in onlineKeywords : includes(lowerTitle, k) THEN "Online"
       ELSE IF \/ includes(title, <<KNIFE>>)
               \/ includes(lowerTitle, KW_AMELIYAT)
               \/ includes(lowerTitle, KW_SURGERY)
            THEN "Surgery"
       ELSE IF TimePrefix(title)
            THEN (IF includes(turkishLowerTitle, KW_MUAYENE) THEN "Exam" ELSE "Surgery")
       ELSE IF /\ HasDuration(start, end)
               /\ DurationMinutes(start, end) >= ImplicitSurgeryMinutes
               /\ ~includes(turkishLowerTitle, KW_KONTROL)
               /\ ~includes(turkishLowerTitle, KW_MUAYENE)
            THEN "Surgery"
       ELSE IF \/ CheckupPrefix(title)
               \/ MonthPrefix(lowerTitle)
               \/ includes(turkishLowerTitle, KW_KONTROL)
            THEN "Control"
       ELSE IF \/ ExamPrefix(title)
               \/ OpPrefix(title)
               \/ includes(turkishLowerTitle, KW_MUAYENE)
               \/ includes(turkishLowerTitle, KW_EXAM)
            THEN "Exam"
       ELSE "Available"

categorizeEvent_eventCategories(title, color, start, end) ==
    LET lowerTitle == toLowerCase(title)
        turkishLowerTitle == toLocaleLowerCaseTR(title)
    IN IF includes(turkishLowerTitle, KW_XXX) THEN "Busy"
       ELSE IF startsWith(turkishLowerTitle, KW_ANEST) THEN "Anesthesia"
       ELSE IF color \in RedColors THEN "Cancelled"
       ELSE IF \E p \in cancelledPrefixes : startsWith(turkishLowerTitle, p) THEN "Cancelled"
       ELSE IF \E k \in busyKeywords : includes(turkishLowerTitle, k) THEN "Busy"
       ELSE IF \E k \in onlineKeywords : includes(lowerTitle, k) THEN "Online"
       ELSE IF \/ includes(title, <<KNIFE>>)
               \/ includes(lowerTitle, KW_AMELIYAT)
               \/ includes(lowerTitle, KW_SURGERY)
            THEN "Surgery"
       ELSE IF TimePrefix(title)
            THEN (IF includes(turkishLowerTitle, KW_MUAYENE) THEN "Exam" ELSE "Surgery")
       ELSE IF /\ HasDuration(start, end)
               /\ DurationMinutes(start, end) >= ImplicitSurgeryMinutes
               /\ ~includes(turkishLowerTitle, KW_KONTROL)
               /\ ~includes(turkishLowerTitle, KW_MUAYENE)
            THEN "Surgery"
       ELSE IF \/ CheckupPrefix(title)
               \/ MonthPrefix(lowerTitle)
               \/ includes(turkishLowerTitle, KW_KONTROL)
            THEN "Control"
       ELSE IF \/ ExamPrefix(title)
               \/ OpPrefix(title)
               \/ includes(turkishLowerTitle, KW_MUAYENE)
               \/ includes(turkishLowerTitle, KW_EXAM)
            THEN "Exam"
       ELSE "Busy"

(***************************************************************************)
(* lib/googleCalendar.ts: processEvents                                    *)
(***************************************************************************)
NoColorId == "undefined"      \* event.colorId absent
DefaultTitle == <<"M",U_UML,"s","a","i","t"," ","D","e",G_BREVE,"i","l">>

\* colorMap[colorId]; an identifier outside the table maps to undefined
colorMap(colorId) ==
    CASE colorId = "1" -> "#a4bdfc" [] colorId = "2" -> "#46a67a"
      [] colorId = "3" -> "#dbadff" [] colorId = "4" -> "#ff887c"
      [] colorId = "5" -> "#fbd75b" [] colorId = "6" -> "#ffb878"
      [] colorId = "7" -> "#46d6db" [] colorId = "8" -> "#e1e1e1"
      [] colorId = "9" -> "#5484ed" [] colorId = "10" -> "#3d8b3d"
      [] colorId = "11" -> "#dc2127"
      [] OTHER -> NoColor

\* A raw event is [id, summary, colorId, start, end]; start and end are what
\* event.start?.dateTime || event.start?.date gives (NoTime when absent).
\* event.summary || 'Musait Degil'
TitleOf(event) == IF event.summary = <<>> THEN DefaultTitle ELSE event.summary
\* event.colorId ? colorMap[event.colorId] : undefined
ColorOf(event) == IF event.colorId = NoColorId THEN NoColor ELSE colorMap(event.colorId)

\* the end of the callback without the test of the category
keepAlways(event, title, category) ==
    << [id |-> event.id, title |-> title, start |-> event.start,
        end |-> event.end, category |-> category] >>

\* the end of the callback: null for the category 'ignore', else the processed event
keepUnlessIgnored(event, title, category) ==
    IF category = "ignore" THEN <<>>
    ELSE << [id |-> event.id, title |-> title, start |-> event.start,
             end |-> event.end, category |-> category] >>

\* the test `if (!start || !end) return null` lets the event through
hasStartAndEnd(event) == ~(event.start = NoTime \/ event.end = NoTime)

\* the events of a batch for which the callback calls categorizeEvent
passedToClassifier(rawEvents) == SelectSeq(rawEvents, hasStartAndEnd)

\* the callback without the test of start and end
processOneUnchecked(event) ==
    keepUnlessIgnored(event, TitleOf(event),
                      categorizeEvent(TitleOf(event), ColorOf(event), event.start, event.end))

\* the callback of rawEvents.map: <<>> stands for null, <<e>> for a kept event
processOne(event) ==
    IF ~hasStartAndEnd(event) THEN <<>>
    ELSE keepUnlessIgnored(event, TitleOf(event),
                           categorizeEvent(TitleOf(event), ColorOf(event), event.start, event.end))

RECURSIVE processEvents(_)
processEvents(rawEvents) ==
    IF rawEvents = <<>> THEN <<>>
    ELSE processOne(Head(rawEvents)) \o processEvents(Tail(rawEvents))

CACHE_TTL == 5

(***************************************************************************)
(* app/api/calendar/route.ts: mapping to the route's types                 *)
(***************************************************************************)
KW_ANESTEZI == <<"a","n","e","s","t","e","z","i">>
KW_ANESTHESIA == <<"a","n","e","s","t","h","e","s","i","a">>
NoName == <<"undefined">>     \* patientName absent
NoCount == 0                  \* count absent

TypeOf(event) ==
    LET cat == event.category
        lowerTitle == toLowerCase(event.title)
    IN IF cat = "surgery" THEN "Surgery"
       ELSE IF cat = "checkup" THEN "Control"
       ELSE IF cat = "blocked" THEN "Busy"
       ELSE IF cat = "appointment"
            THEN (IF includes(lowerTitle, KW_ANESTEZI) \/ includes(lowerTitle, KW_ANESTHESIA)
                  THEN "Anesthesia"
                  ELSE IF includes(lowerTitle, KW_ONLINE) THEN "Online"
                  ELSE "Exam")
       ELSE "Exam"

\* Display titles are sequences of text pieces.  The source's labels are written
\* here without their diacritics (Mesgul, Online Gorusme, Musait, Iptal, Diger).
DisplayTitle(type) ==
    IF type = "Surgery" THEN <<"Ameliyat">>
    ELSE IF type = "Anesthesia" THEN <<"Anestezi">>
    ELSE IF type = "Online" THEN <<"Online Gorusme">>
    ELSE IF type = "Exam" THEN <<"Muayene">>
    ELSE IF type = "Control" THEN <<"Kontrol">>
    ELSE IF type = "Busy" THEN <<"Dolu">>
    ELSE <<"Mesgul">>

\* title.split(KNIFE)[1]: the text between the first and the second glyph
AfterKnife(title) ==
    LET rest == From(title, indexOf(title, <<KNIFE>>) + 1)
        nxt == indexOf(rest, <<KNIFE>>)
    IN IF nxt = 0 THEN rest ELSE Upto(rest, nxt - 1)

AbbreviatedName(type, title) ==
    IF type = "Surgery" /\ title # <<>>
    THEN LET namePart == IF includes(title, <<KNIFE>>) THEN trim(AfterKnife(title)) ELSE title
             parts == splitSpaces(trim(namePart))
         IN IF Len(parts) >= 2
            THEN LET firstName == (IF parts[1] = <<>> THEN <<>>
                                   ELSE <<UpperChar(parts[1][1])>> \o toLowerCase(Tail(parts[1])))
                 IN firstName \o <<" ">> \o <<UpperChar(parts[2][1])>> \o <<".">>
            ELSE parts[1]
    ELSE NoName

\* mapEvent that keeps the raw title
mapEventRawTitle(event) ==
    [id |-> <<event.id>>, title |-> event.title,
     patientName |-> AbbreviatedName(TypeOf(event), event.title),
     start |-> event.start, end |-> event.end, type |-> TypeOf(event), count |-> NoCount]

mapEvent(event) ==
    LET type == TypeOf(event)
    IN [id |-> <<event.id>>, title |-> DisplayTitle(type),
        patientName |-> AbbreviatedName(type, event.title),
        start |-> event.start, end |-> event.end, type |-> type, count |-> NoCount]

\* apiEvents.map(...) followed by filter(e => new Date(e.end) >= timeMin)
MapAndFilter(apiEvents, tMin) ==
    SelectSeq([k \in 1..Len(apiEvents) |-> mapEvent(apiEvents[k])], LAMBDA e : e.end >= tMin)

(***************************************************************************)
(* route.ts: createSummaryBlock and the merge loop                         *)
(***************************************************************************)
turkishMap(type) ==
    CASE type = "Exam" -> "Muayene" [] type = "Control" -> "Kontrol"
      [] type = "Anesthesia" -> "Anestezi" [] type = "Online" -> "Online Gorusme"
      [] type = "Busy" -> "Dolu" [] type = "Surgery" -> "Ameliyat"
      [] type = "Available" -> "Musait" [] type = "Cancelled" -> "Iptal"
      [] OTHER -> "Diger"

\* decimal digits of a natural number, as text
RECURSIVE Digits(_)
Digits(n) ==
    LET d == <<"0","1","2","3","4","5","6","7","8","9">>[(n % 10) + 1]
    IN IF n < 10 THEN <<d>> ELSE Digits(n \div 10) \o <<d>>

\* the labels of the buffer in the order of their first occurrence
\* (the insertion order of the keys of typeCounts)
RECURSIVE LabelOrder(_, _)
LabelOrder(events, seen) ==
    IF events = <<>> THEN <<>>
    ELSE LET t == turkishMap(Head(events).type)
         IN IF t \in seen THEN LabelOrder(Tail(events), seen)
            ELSE <<t>> \o LabelOrder(Tail(events), seen \cup {t})

SummaryTitle(events) ==
    LET labels == LabelOrder(events, {})
        n(t) == Cardinality({k \in 1..Len(events) : turkishMap(events[k].type) = t})
        summaryParts == [k \in 1..Len(labels) |-> Digits(n(labels[k])) \o <<" ", labels[k]>>]
    IN joinWith(summaryParts, <<", ">>)

MinGap == 15

\* createSummaryBlock that closes the block at its first member's end and wraps
\* a single event
createSummaryBlockFirstOnly(events) ==
    LET allSame == \A k \in 1..Len(events) : events[k].type = events[1].type
    IN [id |-> <<"group-">> \o events[1].id,
        title |-> SummaryTitle(events),
        patientName |-> NoName,
        start |-> events[1].start,
        end |-> events[1].end,
        type |-> IF allSame THEN events[1].type ELSE "Control",
        count |-> Len(events)]

createSummaryBlock(events) ==
    IF Len(events) = 1 THEN events[1]
    ELSE LET allSame == \A k \in 1..Len(events) : events[k].type = events[1].type
         IN [id |-> <<"group-">> \o events[1].id,
             title |-> SummaryTitle(events),
             patientName |-> NoName,
             start |-> events[1].start,
             end |-> events[Len(events)].end,
             type |-> IF allSame THEN events[1].type ELSE "Control",
             count |-> Len(events)]

\* the test with a gap of exactly 15 minutes still joining
MergeableInclusive(lastInBuffer, current) ==
    current.start - lastInBuffer.end <= MinGap /\ current.type = lastInBuffer.type

\* the test without the comparison of the types
MergeableAnyType(lastInBuffer, current) ==
    current.start - lastInBuffer.end < MinGap

\* the test that appends the current event to the pending buffer
Mergeable(lastInBuffer, current) ==
    current.start - lastInBuffer.end < MinGap /\ current.type = lastInBuffer.type

\* one iteration of the merge loop on [merged, buffer]
MergeIter(st, current) ==
    IF current.type = "Surgery"
    THEN [merged |-> (IF st.buffer # <<>> THEN Append(st.merged, createSummaryBlock(st.buffer))
                      ELSE st.merged) \o <<current>>,
          buffer |-> <<>>]
    ELSE IF st.buffer = <<>>
         THEN [merged |-> st.merged, buffer |-> <<current>>]
    ELSE IF Mergeable(st.buffer[Len(st.buffer)], current)
         THEN [merged |-> st.merged, buffer |-> Append(st.buffer, current)]
    ELSE [merged |-> Append(st.merged, createSummaryBlock(st.buffer)), buffer |-> <<current>>]

\* the loop without the flush after it
MergeFlushForgotten(st) == st.merged

\* the flush after the loop
MergeFlush(st) ==
    IF st.buffer # <<>> THEN Append(st.merged, createSummaryBlock(st.buffer)) ELSE st.merged

(***************************************************************************)
(* route.ts: civil time in Europe/Istanbul (UTC+3 all year)                *)
(***************************************************************************)
IstanbulOffset == 180
DayMinutes == 24 * 60

\* toZonedTime(d, 'Europe/Istanbul'): the civil time, in minutes since the epoch's
\* civil midnight; fromZonedTime is its inverse
toZonedTime(t) == t + IstanbulOffset
fromZonedTime(c) == c - IstanbulOffset
\* zoned.getDay(): 0 is Sunday (the epoch is a Sunday)
getDay(c) == (c \div DayMinutes) % 7
\* set(zoned, {hours, minutes, seconds: 0, milliseconds: 0})
setTime(c, hours, minutes) == (c \div DayMinutes) * DayMinutes + hours * 60 + minutes
\* format(toZonedTime(new Date(t), timeZone), 'yyyy-MM-dd'): the civil day
dayKeyOf(t) == toZonedTime(t) \div DayMinutes
\* startOfDay(d) in the server's zone (UTC)
startOfDay(t) == (t \div DayMinutes) * DayMinutes

\* getDayLimits with the weekday window on every day
getDayLimitsEveryDay(d) ==
    [start |-> fromZonedTime(setTime(toZonedTime(d), 8, 30)),
     end |-> fromZonedTime(setTime(toZonedTime(d), 21, 0))]

getDayLimits(d) ==
    LET zoned == toZonedTime(d)
        day == getDay(zoned)
    IN IF day >= 1 /\ day <= 6
       THEN [start |-> fromZonedTime(setTime(zoned, 8, 30)),
             end |-> fromZonedTime(setTime(zoned, 21, 0))]
       ELSE [start |-> fromZonedTime(setTime(zoned, 8, 0)),
             end |-> fromZonedTime(setTime(zoned, 9, 30))]

\* applyBlackout whose fragments are not held to the 15-minute minimum
applyBlackoutAnyLength(startTs, endTs, baseDate) ==
    LET zoned == toZonedTime(baseDate)
        day == getDay(zoned)
        blackoutStart == fromZonedTime(setTime(zoned, 19, 30))
        blackoutEnd == fromZonedTime(setTime(zoned, 20, 30))
    IN IF day >= 2 /\ day <= 4
       THEN IF endTs <= blackoutStart \/ startTs >= blackoutEnd
            THEN << [start |-> startTs, end |-> endTs] >>
            ELSE (IF startTs < blackoutStart
                  THEN << [start |-> startTs, end |-> blackoutStart] >> ELSE <<>>)
                 \o
                 (IF endTs > blackoutEnd
                  THEN << [start |-> blackoutEnd, end |-> endTs] >> ELSE <<>>)
       ELSE << [start |-> startTs, end |-> endTs] >>

\* applyBlackout that cuts the blackout out on every weekday
applyBlackoutEveryDay(startTs, endTs, baseDate) ==
    LET zoned == toZonedTime(baseDate)
        blackoutStart == fromZonedTime(setTime(zoned, 19, 30))
        blackoutEnd == fromZonedTime(setTime(zoned, 20, 30))
    IN IF endTs <= blackoutStart \/ startTs >= blackoutEnd
       THEN << [start |-> startTs, end |-> endTs] >>
       ELSE (IF startTs < blackoutStart /\ blackoutStart - startTs >= MinGap
             THEN << [start |-> startTs, end |-> blackoutStart] >> ELSE <<>>)
            \o
            (IF endTs > blackoutEnd /\ endTs - blackoutEnd >= MinGap
             THEN << [start |-> blackoutEnd, end |-> endTs] >> ELSE <<>>)

\* the fragments of [startTs, endTs) left by the blackout of baseDate's weekday
applyBlackout(startTs, endTs, baseDate) ==
    LET zoned == toZonedTime(baseDate)
        day == getDay(zoned)
        blackoutStart == fromZonedTime(setTime(zoned, 19, 30))
        blackoutEnd == fromZonedTime(setTime(zoned, 20, 30))
    IN IF day >= 2 /\ day <= 4
       THEN IF endTs <= blackoutStart \/ startTs >= blackoutEnd
            THEN << [start |-> startTs, end |-> endTs] >>
            ELSE (IF startTs < blackoutStart /\ blackoutStart - startTs >= MinGap
                  THEN << [start |-> startTs, end |-> blackoutStart] >> ELSE <<>>)
                 \o
                 (IF endTs > blackoutEnd /\ endTs - blackoutEnd >= MinGap
                  THEN << [start |-> blackoutEnd, end |-> endTs] >> ELSE <<>>)
       ELSE << [start |-> startTs, end |-> endTs] >>

(***************************************************************************)
(* route.ts: availability gaps of one display day                          *)
(***************************************************************************)
SurgeryBuffer == 10

\* BusyInterval without the surgery pre-buffer
BusyIntervalNoBuffer(e) ==
    [start |-> e.start, end |-> e.end]

BusyInterval(e) ==
    [start |-> IF e.type = "Surgery" THEN e.start - SurgeryBuffer ELSE e.start,
     end |-> e.end]

\* Array.prototype.sort((a, b) => a.start - b.start): stable
RECURSIVE InsertByStart(_, _)
InsertByStart(sorted, x) ==
    IF sorted = <<>> THEN <<x>>
    ELSE IF x.start < Head(sorted).start THEN <<x>> \o sorted
    ELSE <<Head(sorted)>> \o InsertByStart(Tail(sorted), x)
RECURSIVE SortByStart(_)
SortByStart(s) ==
    IF s = <<>> THEN <<>> ELSE InsertByStart(SortByStart(Upto(s, Len(s) - 1)), s[Len(s)])

Max(a, b) == IF a >= b THEN a ELSE b
Min(a, b) == IF a <= b THEN a ELSE b

\* the test that joins nothing
OverlapsNever(current, next) == FALSE

\* the test that joins the next interval to the current run
Overlaps(current, next) == next.start < current.end

\* the sweep that builds mergedBusy
RECURSIVE FlattenFrom(_, _)
FlattenFrom(current, rest) ==
    IF rest = <<>> THEN <<current>>
    ELSE IF Overlaps(current, Head(rest))
         THEN FlattenFrom([current EXCEPT !.end = Max(current.end, Head(rest).end)], Tail(rest))
         ELSE <<current>> \o FlattenFrom(Head(rest), Tail(rest))
Flatten(busyIntervals) ==
    IF busyIntervals = <<>> THEN <<>> ELSE FlattenFrom(busyIntervals[1], Tail(busyIntervals))

MergedBusyOf(dayEvents) ==
    Flatten(SortByStart([k \in 1..Len(dayEvents) |-> BusyInterval(dayEvents[k])]))

Tagged(frags, kind) == [k \in 1..Len(frags) |-> [start |-> frags[k].start,
                                                 end |-> frags[k].end, kind |-> kind]]

\* the cursor loop over mergedBusy and the end-of-day gap
RECURSIVE GapSweep(_, _, _, _, _)
GapSweep(mergedBusy, cursor, dayStart, dayEnd, refDate) ==
    IF mergedBusy = <<>>
    THEN (IF cursor < dayEnd /\ dayEnd - cursor >= MinGap
          THEN Tagged(applyBlackout(cursor, dayEnd, refDate), "gap-eod-") ELSE <<>>)
    ELSE LET busy == Head(mergedBusy)
             gapStart == Max(cursor, dayStart)
             gapEnd == Min(busy.start, dayEnd)
         IN (IF gapEnd > gapStart /\ gapEnd - gapStart >= MinGap
             THEN Tagged(applyBlackout(gapStart, gapEnd, refDate), "gap-") ELSE <<>>)
            \o GapSweep(Tail(mergedBusy), Max(cursor, busy.end), dayStart, dayEnd, refDate)

\* the free windows of a day computed without its busy intervals
DaySlotsIgnoringBusy(dayEvents, day) ==
    LET limits == getDayLimits(day)
    IN GapSweep(<<>>, limits.start, limits.start, limits.end, day)

\* the free windows of display day `day`, in the order they are pushed
DaySlots(dayEvents, day) ==
    LET limits == getDayLimits(day)
    IN GapSweep(MergedBusyOf(dayEvents), limits.start, limits.start, limits.end, day)

\* Math.random(): a deterministic generator over hidden state.  A drawn number is
\* identified with the generator state that produced it, so that two draws of one
\* process differ.
RandomText(state) == Digits(state)

AvailableEvent(slot, random) ==
    [id |-> <<slot.kind>> \o RandomText(random), title |-> <<"Musait">>,
     patientName |-> NoName, start |-> slot.start, end |-> slot.end,
     type |-> "Available", count |-> NoCount]

\* eventsByDay[dayKey] || []
EventsOfDay(mergedEvents, day) ==
    SelectSeq(mergedEvents, LAMBDA e : dayKeyOf(e.start) = dayKeyOf(day))

\* the iteration that skips a day without events
DayOutputEventsOnly(mergedEvents, day, random) ==
    IF EventsOfDay(mergedEvents, day) = <<>> THEN <<>>
    ELSE EventsOfDay(mergedEvents, day)
         \o [k \in 1..Len(DaySlots(EventsOfDay(mergedEvents, day), day)) |->
                AvailableEvent(DaySlots(EventsOfDay(mergedEvents, day), day)[k], random + k - 1)]

\* what one iteration of displayDays.forEach pushes
DayOutput(mergedEvents, day, random) ==
    LET dayEvents == EventsOfDay(mergedEvents, day)
        slots == DaySlots(dayEvents, day)
    IN dayEvents \o [k \in 1..Len(slots) |-> AvailableEvent(slots[k], random + k - 1)]

\* eachDayOfInterval({start: timeMin, end: addDays(timeMin, 29)}), cut to DisplayDays days
DisplayDays == 2
displayDays(tMin) == [k \in 1..DisplayDays |-> startOfDay(tMin) + (k - 1) * DayMinutes]

(***************************************************************************)
(* route.ts: surgery counters and the final sort                           *)
(***************************************************************************)
SurgeryCounter(events, p) ==
    LET e == events[p]
        same == {q \in 1..Len(events) :
                    events[q].type = "Surgery" /\ dayKeyOf(events[q].start) = dayKeyOf(e.start)}
        before == {q \in same : events[q].start < e.start \/ (events[q].start = e.start /\ q < p)}
    IN <<" (">> \o Digits(Cardinality(before) + 1) \o <<"/">> \o Digits(Cardinality(same)) \o <<")">>

WithCounters(events) ==
    [p \in 1..Len(events) |->
        IF events[p].type = "Surgery"
        THEN [events[p] EXCEPT !.title = @ \o SurgeryCounter(events, p)]
        ELSE events[p]]

FinalSort(events) == SortByStart(events)

(***************************************************************************)
(* The calendar and the requests the model explores                        *)
(***************************************************************************)
\* the instant of civil time hh:mm on civil day d in Istanbul
Civil(d, hh, mm) == fromZonedTime(d * DayMinutes + hh * 60 + mm)

RawEvent(id, summary, colorId, start, end) ==
    [id |-> id, summary |-> summary, colorId |-> colorId, start |-> start, end |-> end]

T_K2 == <<"K","2">>
T_K1 == <<"K","1">>
T_k3 == <<"k","3">>
T_1m == <<"1","m"," ","V","e","l","i">>
T_Kontrol == <<"K","o","n","t","r","o","l"," ","C","a","n">>
T_mVeli == <<"m"," ","V","e","l","i"," ","C","a","n">>
T_Surgery3 == <<KNIFE," ","A","y",S_CED,"e"," ","Y","I","L","M","A","Z"," ","K","a","y","a">>
T_Surgery1 == <<KNIFE,"Z","e","y","n","e","p">>
T_Clock == <<"0","7",":","3","0"," ","c","a","n"," ","d","e","m","i","r"," ","t","e","l"," ","5","5","5">>
T_ShortKnife == <<KNIFE," ","A","l","i"," ","K","a","y","a">>
T_Ert == <<"e","r","t"," ","V","e","l","i">>
T_Xxx == <<"X","X","X"," ","i","z","i","n","l","i">>
T_Online == <<"O","n","l","i","n","e"," ","C","a","n">>

\* The events a calendar may hold: day 0 is a Sunday, day 2 a Tuesday.
Catalogue ==
    << RawEvent("c1", T_K2, NoColorId, Civil(2, 10, 0), Civil(2, 10, 10)),
       RawEvent("c2", T_K1, NoColorId, Civil(2, 10, 20), Civil(2, 10, 30)),
       RawEvent("c3", T_k3, "2", Civil(2, 10, 40), Civil(2, 10, 50)),
       RawEvent("c4", T_1m, NoColorId, Civil(2, 11, 5), Civil(2, 11, 15)),
       RawEvent("c5", T_Kontrol, NoColorId, Civil(2, 10, 0), Civil(2, 11, 0)),
       RawEvent("m1", T_mVeli, NoColorId, Civil(2, 10, 30), Civil(2, 10, 40)),
       RawEvent("s1", T_Surgery3, NoColorId, Civil(2, 11, 20), Civil(2, 12, 50)),
       RawEvent("s2", T_Surgery1, "5", Civil(2, 14, 0), Civil(2, 14, 45)),
       RawEvent("s3", T_Clock, NoColorId, Civil(2, 7, 30), Civil(2, 8, 40)),
       RawEvent("a1", T_ShortKnife, NoColorId, Civil(2, 20, 50), Civil(2, 21, 10)),
       RawEvent("x1", T_K2, "11", Civil(2, 13, 0), Civil(2, 13, 30)),
       RawEvent("x2", T_Ert, NoColorId, Civil(2, 10, 12), Civil(2, 10, 18)),
       RawEvent("b1", T_Xxx, "11", Civil(2, 19, 0), Civil(2, 20, 0)),
       RawEvent("o1", T_Online, NoColorId, Civil(0, 8, 10), Civil(0, 8, 40)),
       RawEvent("u1", <<>>, NoColorId, Civil(0, 9, 0), Civil(0, 9, 20)),
       RawEvent("g1", T_K1, NoColorId, Civil(2, 18, 50), Civil(2, 19, 20)),
       RawEvent("h1", T_K2, NoColorId, Civil(2, 20, 40), Civil(2, 20, 45)),
       RawEvent("p1", T_K1, NoColorId, Civil(2, 23, 50), Civil(2, 23, 58)),
       RawEvent("p2", T_K2, NoColorId, Civil(3, 0, 2), Civil(3, 0, 10)),
       RawEvent("q1", T_mVeli, NoColorId, Civil(2, 10, 45), Civil(2, 10, 55)),
       RawEvent("w1", T_Xxx, NoColorId, Civil(2, 20, 40), Civil(3, 9, 30)) >>

MaxEvents == 3

\* The calendars examined are drawn from seven neighbourhoods of the catalogue:
\* the morning run of checkups with an ignored event and an exam inside it, the
\* overlapping events around the first surgery, the events at the edges of the
\* business window and of the blackout, the Sunday events, the events less than
\* 15 minutes from the blackout, the events on either side of midnight, among
\* them a leave from Tuesday evening to Wednesday morning, and an exam that
\* ends where a checkup starts which a second exam overlaps.
Scenes == { {1, 2, 3, 6, 12}, {3, 4, 5, 6, 7}, {8, 9, 10, 11, 13}, {14, 15},
            {10, 16, 17}, {18, 19, 21}, {3, 6, 20} }

\* A calendar holds at most MaxEvents events of one scene; the provider lists
\* them ordered by start time (orderBy: 'startTime'), ties in any order.
Calendars ==
    {c \in UNION {[1..n -> sc] : n \in 0..MaxEvents, sc \in Scenes} :
        /\ \A a, b \in DOMAIN c : a < b => c[a] # c[b]
        /\ \A a, b \in DOMAIN c : a < b => Catalogue[c[a]].start <= Catalogue[c[b]].start}
EventsOf(c) == [k \in DOMAIN c |-> Catalogue[c[k]]]

\* the timeMin query parameter: absent, or Tuesday 10:05 Istanbul time
NoParam == -1
TimeMinParams == {NoParam, Civil(2, 10, 5)}
\* the first request arrives on Sunday 07:00 Istanbul time
ClockStart == Civil(0, 7, 0)
\* minutes between two requests: within the cache's life, or at its end
Delays == {1, CACHE_TTL}
MaxRequests == 2

(***************************************************************************)
(* State                                                                   *)
(***************************************************************************)
VARIABLES
    upstream,         \* the provider's calendar: raw events ordered by start
    now,              \* the wall clock, in minutes
    rng,              \* the state of Math.random's generator (draws made so far)
    eventsCache,      \* googleCalendar.ts: the module-level cache entry
    backupFile,       \* calendar_backup.json on disk
    requests,         \* requests received so far
    pc,               \* where the request being served stands
    timeMin,          \* route.ts: timeMin of the request being served
    fetchNow,         \* fetchCalendarEvents: its local `now`
    allEvents,        \* fetchCalendarEvents: events of the pages read so far
    pageToken,        \* fetchCalendarEvents: next page (index of its first event; 0: none)
    apiEvents,        \* route.ts: what fetchCalendarEvents returned
    processedEvents,  \* route.ts: the mapped and filtered events
    i,                \* route.ts: index of the merge loop (1-based)
    buffer,           \* route.ts: the pending buffer of the merge loop
    mergedEvents,     \* route.ts: the merged events
    dayIdx,           \* route.ts: index into displayDays (1-based)
    finalEvents,      \* route.ts: the events pushed so far
    response,         \* the response to the last request served
    prevResponse,     \* the response to the request before it
    call,             \* the arguments of a direct call of the two classifiers
    verdict,          \* what each classifier returned for them
    fetchers          \* the calls of fetchCalendarEvents made side by side

adapterVars == <<eventsCache, backupFile>>
fetchVars == <<fetchNow, allEvents, pageToken>>
routeVars == <<apiEvents, processedEvents, i, buffer, mergedEvents, dayIdx, finalEvents>>
vars == <<upstream, now, rng, eventsCache, backupFile, requests, pc, timeMin, fetchNow,
          allEvents, pageToken, apiEvents, processedEvents, i, buffer, mergedEvents,
          dayIdx, finalEvents, response, prevResponse, call, verdict, fetchers>>
classifierVars == <<call, verdict>>

NoCache == [present |-> FALSE, data |-> <<>>, timestamp |-> 0]
NoFile == [exists |-> FALSE, readable |-> FALSE, data |-> <<>>]
NoResponse == [status |-> 0, timeMin |-> 0, body |-> <<>>]
\* no direct call of the classifiers is in progress
NoCall == [title |-> <<>>, color |-> NoColor, start |-> NoTime, end |-> NoTime]
NotReturned == "(none)"
NoVerdict == [eventCategories |-> NotReturned, classification |-> NotReturned]

Init ==
    /\ upstream \in {EventsOf(c) : c \in Calendars}
    /\ now = ClockStart
    /\ rng = 0
    /\ eventsCache = NoCache
    /\ backupFile = NoFile
    /\ requests = 0
    /\ pc = "idle"
    /\ timeMin = 0
    /\ fetchNow = 0
    /\ allEvents = <<>>
    /\ pageToken = 0
    /\ apiEvents = <<>>
    /\ processedEvents = <<>>
    /\ i = 1
    /\ buffer = <<>>
    /\ mergedEvents = <<>>
    /\ dayIdx = 1
    /\ finalEvents = <<>>
    /\ response = NoResponse
    /\ prevResponse = NoResponse
    /\ call = NoCall
    /\ verdict = NoVerdict
    /\ fetchers = <<>>

(***************************************************************************)
(* route.ts GET and googleCalendar.ts fetchCalendarEvents, step by step     *)
(***************************************************************************)
\* the route starts on what fetchCalendarEvents returned
StartRoute(events) ==
    /\ apiEvents' = events
    /\ pc' = "map"
    /\ UNCHANGED <<processedEvents, i, buffer, mergedEvents, dayIdx, finalEvents>>

\* the route's catch: a 500 response
RespondError ==
    /\ prevResponse' = response
    /\ response' = [status |-> 500, timeMin |-> timeMin, body |-> <<>>]
    /\ pc' = "idle"
    /\ UNCHANGED routeVars

\* CacheFresh with a life one minute shorter
CacheFreshShortLife(cache, t) == cache.present /\ t - cache.timestamp < CACHE_TTL - 1

\* the test that takes any stored entry for fresh
CacheFreshOnceStored(cache, t) == cache.present

\* the cache entry is younger than the TTL
CacheFresh(cache, t) == cache.present /\ t - cache.timestamp < CACHE_TTL

\* A request arrives: GET reads timeMin and calls fetchCalendarEvents, which
\* returns the cache entry's data if it is fresh and otherwise starts to page.
Request(param, delay) ==
    /\ pc = "idle"
    /\ requests < MaxRequests
    /\ requests = 0 => delay = 1
    /\ requests' = requests + 1
    /\ now' = now + delay
    /\ timeMin' = IF param = NoParam THEN startOfDay(now') ELSE param
    /\ fetchNow' = now'
    /\ allEvents' = <<>>
    /\ pageToken' = 0
    /\ IF CacheFresh(eventsCache, now')
       THEN StartRoute(eventsCache.data)
       ELSE pc' = "fetch" /\ UNCHANGED routeVars
    /\ UNCHANGED <<classifierVars, fetchers, upstream, rng, eventsCache, backupFile, response, prevResponse>>

\* calendar.events.list answers with a page of k events; after the last page the
\* events are processed, cached and saved to disk
FetchPage(k) ==
    /\ pc = "fetch"
    /\ LET pos == IF pageToken = 0 THEN 1 ELSE pageToken
           left == Len(upstream) - pos + 1
       IN /\ k <= left
          /\ k >= 1 \/ left = 0
          /\ LET items == SubSeq(upstream, pos, pos + k - 1)
                 all == allEvents \o items
                 nextToken == IF pos + k <= Len(upstream) THEN pos + k ELSE 0
             IN IF nextToken # 0
                THEN /\ allEvents' = all
                     /\ pageToken' = nextToken
                     /\ UNCHANGED <<pc, eventsCache, backupFile, routeVars>>
                ELSE /\ allEvents' = all
                     /\ pageToken' = 0
                     /\ eventsCache' = [present |-> TRUE, data |-> processEvents(all),
                                        timestamp |-> fetchNow]
                     /\ backupFile' = [exists |-> TRUE, readable |-> TRUE, data |-> eventsCache'.data]
                     /\ StartRoute(eventsCache'.data)
    /\ UNCHANGED <<classifierVars, fetchers, upstream, now, rng, requests, timeMin, fetchNow, response, prevResponse>>

\* calendar.events.list throws: the catch returns the stale cache entry, else the
\* file backup, else rethrows, and the route answers 500
FetchFail ==
    /\ pc = "fetch"
    /\ IF eventsCache.present THEN StartRoute(eventsCache.data) /\ UNCHANGED <<response, prevResponse>>
       ELSE IF backupFile.exists /\ backupFile.readable THEN StartRoute(backupFile.data) /\ UNCHANGED <<response, prevResponse>>
       ELSE RespondError
    /\ UNCHANGED <<classifierVars, fetchers, upstream, now, rng, eventsCache, backupFile, requests, timeMin, fetchVars>>

\* steps 2 and 3 of GET: map to the route's types, filter by timeMin
MapEvents ==
    /\ pc = "map"
    /\ processedEvents' = MapAndFilter(apiEvents, timeMin)
    /\ i' = 1
    /\ buffer' = <<>>
    /\ mergedEvents' = <<>>
    /\ dayIdx' = 1
    /\ finalEvents' = <<>>
    /\ pc' = "merge"
    /\ UNCHANGED <<classifierVars, fetchers, upstream, now, rng, adapterVars, requests, timeMin, fetchVars, apiEvents,
                   response, prevResponse>>

\* one iteration of the merge loop
MergeStep ==
    /\ pc = "merge"
    /\ i <= Len(processedEvents)
    /\ LET st == MergeIter([merged |-> mergedEvents, buffer |-> buffer], processedEvents[i])
       IN mergedEvents' = st.merged /\ buffer' = st.buffer
    /\ i' = i + 1
    /\ UNCHANGED <<classifierVars, fetchers, upstream, now, rng, adapterVars, requests, pc, timeMin, fetchVars, apiEvents,
                   processedEvents, dayIdx, finalEvents, response, prevResponse>>

\* the loop is over: flush the buffer
MergeDone ==
    /\ pc = "merge"
    /\ i > Len(processedEvents)
    /\ mergedEvents' = MergeFlush([merged |-> mergedEvents, buffer |-> buffer])
    /\ buffer' = <<>>
    /\ pc' = "days"
    /\ UNCHANGED <<classifierVars, fetchers, upstream, now, rng, adapterVars, requests, timeMin, fetchVars, apiEvents,
                   processedEvents, i, dayIdx, finalEvents, response, prevResponse>>

\* one iteration of displayDays.forEach: the day's events and its Available slots
DayStep ==
    /\ pc = "days"
    /\ dayIdx <= DisplayDays
    /\ LET out == DayOutput(mergedEvents, displayDays(timeMin)[dayIdx], rng)
       IN /\ finalEvents' = finalEvents \o out
          /\ rng' = rng + Cardinality({k \in 1..Len(out) : out[k].type = "Available"})
    /\ dayIdx' = dayIdx + 1
    /\ UNCHANGED <<classifierVars, fetchers, upstream, now, adapterVars, requests, pc, timeMin, fetchVars, apiEvents,
                   processedEvents, i, buffer, mergedEvents, response, prevResponse>>

\* steps 6 and 7 of GET and the response
Respond ==
    /\ pc = "days"
    /\ dayIdx > DisplayDays
    /\ finalEvents' = FinalSort(WithCounters(finalEvents))
    /\ prevResponse' = response
    /\ response' = [status |-> 200, timeMin |-> timeMin, body |-> finalEvents']
    /\ pc' = "idle"
    /\ UNCHANGED <<classifierVars, fetchers, upstream, now, rng, adapterVars, requests, timeMin, fetchVars, apiEvents,
                   processedEvents, i, buffer, mergedEvents, dayIdx>>

Next ==
    \/ \E param \in TimeMinParams, delay \in Delays : Request(param, delay)
    \/ \E k \in 0..MaxEvents : FetchPage(k)
    \/ FetchFail
    \/ MapEvents
    \/ MergeStep
    \/ MergeDone
    \/ DayStep
    \/ Respond

Spec == Init /\ [][Next]_vars


(***************************************************************************)
(* route.ts GET as one function of what fetchCalendarEvents returned:      *)
(* the composition of the steps above, for comparing whole runs            *)
(***************************************************************************)
RECURSIVE MergeLoop(_, _)
MergeLoop(st, events) ==
    IF events = <<>> THEN st ELSE MergeLoop(MergeIter(st, Head(events)), Tail(events))
MergeAll(events) == MergeFlush(MergeLoop([merged |-> <<>>, buffer |-> <<>>], events))

AvailableCount(events) == Cardinality({k \in 1..Len(events) : events[k].type = "Available"})

\* displayDays.forEach from day k on; each Available record takes one draw
RECURSIVE DaysOutput(_, _, _, _)
DaysOutput(merged, days, k, random) ==
    IF k > Len(days) THEN <<>>
    ELSE DayOutput(merged, days[k], random)
         \o DaysOutput(merged, days, k + 1,
                       random + AvailableCount(DayOutput(merged, days[k], random)))

RouteOutput(events, tMin, random) ==
    FinalSort(WithCounters(DaysOutput(MergeAll(MapAndFilter(events, tMin)),
                                      displayDays(tMin), 1, random)))

(***************************************************************************)
(* Direct calls of the two classifiers                                     *)
(***************************************************************************)
T_Anest == <<"A","n","e","s","t","e","z","i"," ","C","a","n">>
T_Info == <<INFO, VS16, " ", "b","i","l","g","i">>
T_Plain == <<"V","e","l","i"," ","C","a","n">>
T_Izin == <<"A","y","t","e","l"," ","i","z","i","n">>
T_ClockExam == <<"0","9",":","0","0"," ","m","u","a","y","e","n","e"," ","C","a","n">>
T_Ameliyat == <<"A","M","E","L","I","Y","A","T"," ","A","l","i">>
T_CanKontrol == <<"C","a","n"," ","k","o","n","t","r","o","l">>
T_AliAmeliyat == <<"A","l","i"," ","a","m","e","l","i","y","a","t">>
T_AytelKaya == <<"A","y","t","e","l"," ","K","a","y","a">>

ClassifierTitles ==
    { T_K2, T_1m, T_Kontrol, T_mVeli, T_Surgery3, T_Clock, T_Ert, T_Xxx, T_Online,
      T_Anest, T_Info, T_Plain, T_Izin, T_ClockExam, T_Ameliyat, T_CanKontrol,
      T_AliAmeliyat, T_AytelKaya, DefaultTitle }
ClassifierColors == {NoColor, "#dc2127", "#DC2127", "11", "#46a67a"}
CallStart == Civil(2, 10, 0)
ClassifierStarts == {NoTime, InvalidTime, CallStart}
ClassifierEnds == {NoTime, InvalidTime, CallStart + 30, CallStart + 45, CallStart + 60}

InitClassify ==
    /\ call \in [title : ClassifierTitles, color : ClassifierColors,
                 start : ClassifierStarts, end : ClassifierEnds]
    /\ verdict = NoVerdict
    /\ fetchers = <<>>
    /\ upstream = <<>>
    /\ now = ClockStart
    /\ rng = 0
    /\ eventsCache = NoCache
    /\ backupFile = NoFile
    /\ requests = 0
    /\ pc = "idle"
    /\ timeMin = 0
    /\ fetchNow = 0
    /\ allEvents = <<>>
    /\ pageToken = 0
    /\ apiEvents = <<>>
    /\ processedEvents = <<>>
    /\ i = 1
    /\ buffer = <<>>
    /\ mergedEvents = <<>>
    /\ dayIdx = 1
    /\ finalEvents = <<>>
    /\ response = NoResponse
    /\ prevResponse = NoResponse

\* eventCategories.ts categorizeEvent is called on the arguments
CallEventCategories ==
    /\ verdict.eventCategories = NotReturned
    /\ verdict' = [verdict EXCEPT !.eventCategories =
                      categorizeEvent_eventCategories(call.title, call.color, call.start, call.end)]
    /\ UNCHANGED <<call, fetchers, upstream, now, rng, adapterVars, requests, pc, timeMin, fetchVars,
                   routeVars, response, prevResponse>>

\* classification.ts categorizeEvent is called on the arguments
CallClassification ==
    /\ verdict.classification = NotReturned
    /\ verdict' = [verdict EXCEPT !.classification =
                      categorizeEvent(call.title, call.color, call.start, call.end)]
    /\ UNCHANGED <<call, fetchers, upstream, now, rng, adapterVars, requests, pc, timeMin, fetchVars,
                   routeVars, response, prevResponse>>

NextClassify == CallEventCategories \/ CallClassification

SpecClassify == InitClassify /\ [][NextClassify]_vars

(***************************************************************************)
(* googleCalendar.ts fetchCalendarEvents called side by side.  A call runs  *)
(* without interruption between two awaits, so its steps are: the start up  *)
(* to the first calendar.events.list, the arrival of each page, and the     *)
(* rejection of a calendar.events.list.                                     *)
(***************************************************************************)
\* raw events without a start, or without an end
T_NoStart == <<"K","1"," ","A","l","i">>
MalformedStart == RawEvent("n1", T_NoStart, NoColorId, NoTime, Civil(2, 12, 10))
MalformedEnd == RawEvent("n2", T_Surgery1, NoColorId, Civil(2, 15, 0), NoTime)

\* the successive versions of the calendar at the provider while calls are running
CalendarVersions ==
    << <<Catalogue[1], MalformedStart, Catalogue[11]>>,
       <<MalformedEnd, Catalogue[8]>> >>

\* the loop stops after the first page
continuePagingNever(token) == FALSE

\* the loop condition `while (pageToken)`
continuePaging(token) == token # 0

\* what fs.writeFileSync leaves on disk: the snapshot, the file as it was (the
\* write failed before touching it), or a truncated file (it failed midway)
WriteOutcomes == {"written", "failed", "truncated"}
writeFileSync(file, data, outcome) ==
    CASE outcome = "written" -> [exists |-> TRUE, readable |-> TRUE, data |-> data]
      [] outcome = "failed" -> file
      [] outcome = "truncated" -> [exists |-> TRUE, readable |-> FALSE, data |-> <<>>]

\* the catch block: stale cache entry, else the file backup, else rethrow
NoSnapshot == [taken |-> FALSE, cache |-> NoCache, file |-> NoFile]
\* the catch block without the file backup
CaughtNoBackup(f, cache, file) ==
    [f EXCEPT !.failed = TRUE,
              !.atCatch = [taken |-> TRUE, cache |-> cache, file |-> file],
              !.pc = IF cache.present THEN "returned" ELSE "thrown",
              !.result = IF cache.present THEN cache.data ELSE <<>>]

Caught(f, cache, file) ==
    [f EXCEPT !.failed = TRUE,
              !.atCatch = [taken |-> TRUE, cache |-> cache, file |-> file],
              !.pc = IF cache.present \/ (file.exists /\ file.readable)
                     THEN "returned" ELSE "thrown",
              !.result = IF cache.present THEN cache.data
                         ELSE IF file.exists /\ file.readable THEN file.data ELSE <<>>]

\* a call starts: it returns the cache entry's data if the entry is fresh, and
\* otherwise issues the first calendar.events.list
FetchStart ==
    /\ Len(fetchers) < MaxRequests
    /\ LET hit == CacheFresh(eventsCache, now)
       IN fetchers' = Append(fetchers,
             [pc |-> IF hit THEN "returned" ELSE "paging",
              now |-> now,
              atStart |-> eventsCache,
              atCatch |-> NoSnapshot,
              allEvents |-> <<>>,
              pageToken |-> 0,
              pages |-> <<>>,
              tokens |-> <<>>,
              issued |-> IF hit THEN 0 ELSE 1,
              failed |-> FALSE,
              classified |-> <<>>,
              result |-> IF hit THEN eventsCache.data ELSE <<>>])
    /\ UNCHANGED <<classifierVars, upstream, now, rng, adapterVars, requests, pc, timeMin,
                   fetchVars, routeVars, response, prevResponse>>

\* maxResults: the provider answers with pages of at most this many events
PageSize == 2

\* a page of at most PageSize events arrives for call c; after a page without a
\* token the call processes the events, replaces the cache entry, writes the
\* backup and returns
PageArrives(c, outcome) ==
    /\ fetchers[c].pc = "paging"
    /\ LET f == fetchers[c]
           pos == IF f.pageToken = 0 THEN 1 ELSE f.pageToken
           left == Max(Len(upstream) - pos + 1, 0)
           k == Min(PageSize, left)
       IN /\ LET items == SubSeq(upstream, pos, pos + k - 1)
                 nextToken == IF pos + k <= Len(upstream) THEN pos + k ELSE 0
                 g == [f EXCEPT !.allEvents = @ \o items,
                                !.pages = Append(@, items),
                                !.tokens = Append(@, nextToken),
                                !.pageToken = nextToken]
             IN IF continuePaging(nextToken)
                THEN /\ outcome = "written"
                     /\ fetchers' = [fetchers EXCEPT ![c] = [g EXCEPT !.issued = @ + 1]]
                     /\ UNCHANGED adapterVars
                ELSE /\ eventsCache' = [present |-> TRUE, data |-> processEvents(g.allEvents),
                                        timestamp |-> f.now]
                     /\ backupFile' = writeFileSync(backupFile, eventsCache'.data, outcome)
                     /\ fetchers' = [fetchers EXCEPT ![c] =
                                        [g EXCEPT !.pc = "returned",
                                                  !.classified = passedToClassifier(g.allEvents),
                                                  !.result = eventsCache'.data]]
    /\ UNCHANGED <<classifierVars, upstream, now, rng, requests, pc, timeMin,
                   fetchVars, routeVars, response, prevResponse>>

\* a rejection after which the events received so far are cached
ListFailsCachingPages(c) ==
    /\ fetchers[c].pc = "paging"
    /\ fetchers' = [fetchers EXCEPT ![c] = Caught(@, eventsCache, backupFile)]
    /\ eventsCache' = [present |-> TRUE, data |-> processEvents(fetchers[c].allEvents),
                       timestamp |-> fetchers[c].now]
    /\ UNCHANGED <<classifierVars, upstream, now, rng, backupFile, requests, pc, timeMin,
                   fetchVars, routeVars, response, prevResponse>>

\* calendar.events.list rejects for call c
ListFails(c) ==
    /\ fetchers[c].pc = "paging"
    /\ fetchers' = [fetchers EXCEPT ![c] = Caught(@, eventsCache, backupFile)]
    /\ UNCHANGED <<classifierVars, upstream, now, rng, adapterVars, requests, pc, timeMin,
                   fetchVars, routeVars, response, prevResponse>>

\* time passes: less than the cache's life, or the rest of it
FetchDelays == {CACHE_TTL - 1, 1}
Tick(delay) ==
    /\ now + delay <= ClockStart + CACHE_TTL
    /\ delay = 1 => now > ClockStart
    /\ now' = now + delay
    /\ UNCHANGED <<classifierVars, fetchers, upstream, rng, adapterVars, requests, pc, timeMin,
                   fetchVars, routeVars, response, prevResponse>>

\* the server process restarts while no call is running: the module-level cache
\* is lost, the backup file stays
Restart ==
    /\ eventsCache.present
    /\ \A c \in DOMAIN fetchers : fetchers[c].pc # "paging"
    /\ eventsCache' = NoCache
    /\ UNCHANGED <<classifierVars, fetchers, upstream, now, rng, backupFile, requests, pc,
                   timeMin, fetchVars, routeVars, response, prevResponse>>

\* the calendar is edited at the provider: its next version
CalendarEdit ==
    /\ \E v \in 1..(Len(CalendarVersions) - 1) :
          upstream = CalendarVersions[v] /\ upstream' = CalendarVersions[v + 1]
    /\ UNCHANGED <<classifierVars, fetchers, now, rng, adapterVars, requests, pc, timeMin,
                   fetchVars, routeVars, response, prevResponse>>

\* the state a call that fetched the first version at ClockStart has left
WarmCache ==
    [present |-> TRUE, data |-> processEvents(CalendarVersions[1]), timestamp |-> ClockStart]

\* the process has just started, or has served a call before
InitFetch ==
    /\ upstream = CalendarVersions[1]
    /\ now = ClockStart
    /\ rng = 0
    /\ eventsCache \in {NoCache, WarmCache}
    /\ backupFile = IF eventsCache.present
                    THEN writeFileSync(NoFile, eventsCache.data, "written") ELSE NoFile
    /\ requests = 0
    /\ pc = "idle"
    /\ timeMin = 0
    /\ fetchNow = 0
    /\ allEvents = <<>>
    /\ pageToken = 0
    /\ apiEvents = <<>>
    /\ processedEvents = <<>>
    /\ i = 1
    /\ buffer = <<>>
    /\ mergedEvents = <<>>
    /\ dayIdx = 1
    /\ finalEvents = <<>>
    /\ response = NoResponse
    /\ prevResponse = NoResponse
    /\ call = NoCall
    /\ verdict = NoVerdict
    /\ fetchers = <<>>

NextFetch ==
    \/ FetchStart
    \/ \E c \in DOMAIN fetchers, outcome \in WriteOutcomes : PageArrives(c, outcome)
    \/ \E c \in DOMAIN fetchers : ListFails(c)
    \/ \E delay \in FetchDelays : Tick(delay)
    \/ Restart
    \/ CalendarEdit

SpecFetch == InitFetch /\ [][NextFetch]_vars

(***************************************************************************)
(* Properties of the responses                                             *)
(***************************************************************************)
\* the records of the last response, and those of them that are Available slots
Body == response.body
Slots == {k \in 1..Len(Body) : Body[k].type = "Available"}
Blocks == {k \in 1..Len(Body) : Body[k].type # "Available"}
\* the Istanbul civil date and minute of the day of an instant
CivilDate(t) == (t + 180) \div 1440
CivilMinute(t) == (t + 180) % 1440
Weekday(t) == CivilDate(t) % 7
Answered == pc = "idle" /\ response.status = 200

\* C1: no Available slot of a response intersects the interval of a merged block
\* of the same civil day, a Surgery block's interval starting 10 minutes before
\* its stated start.
C1_SlotsAvoidBlocks ==
    \A a \in Slots, b \in Blocks :
        CivilDate(Body[a].start) = CivilDate(Body[b].start)
        => ~(/\ Body[a].start < Body[b].end
             /\ Body[b].start - (IF Body[b].type = "Surgery" THEN 10 ELSE 0) < Body[a].end)

\* a response holds a Surgery block and a slot that ends exactly 10 minutes
\* before it, and a merged block of two events next to a slot
C1_Witness ==
    /\ Answered
    /\ \E a \in Slots, b \in Blocks :
          Body[b].type = "Surgery" /\ Body[a].end = Body[b].start - 10
    /\ \E a \in Slots, b \in Blocks :
          Body[b].count >= 2 /\ Body[a].start = Body[b].end

\* C2: every Available slot lies inside the business window of its civil date in
\* Istanbul: 08:00-09:30 on a Sunday, 08:30-21:00 from Monday to Saturday.
C2_SlotsInsideWindow ==
    \A a \in Slots :
        /\ CivilDate(Body[a].start) = CivilDate(Body[a].end)
        /\ Body[a].start < Body[a].end
        /\ IF Weekday(Body[a].start) = 0
           THEN CivilMinute(Body[a].start) >= 8 * 60 /\ CivilMinute(Body[a].end) <= 9 * 60 + 30
           ELSE CivilMinute(Body[a].start) >= 8 * 60 + 30 /\ CivilMinute(Body[a].end) <= 21 * 60

\* a response holds a Sunday event, a Sunday slot that ends at 09:30 and a
\* Monday slot that spans 08:30-21:00
C2_Witness ==
    /\ Answered
    /\ \E b \in Blocks : Weekday(Body[b].start) = 0
    /\ \E a \in Slots : Weekday(Body[a].start) = 0 /\ CivilMinute(Body[a].end) = 9 * 60 + 30
    /\ \E a \in Slots : /\ Weekday(Body[a].start) = 1
                        /\ CivilMinute(Body[a].start) = 8 * 60 + 30
                        /\ CivilMinute(Body[a].end) = 21 * 60

\* the generic label of a record type
GenericLabel(type) ==
    CASE type = "Surgery" -> "Ameliyat" [] type = "Anesthesia" -> "Anestezi"
      [] type = "Online" -> "Online Gorusme" [] type = "Exam" -> "Muayene"
      [] type = "Control" -> "Kontrol" [] type = "Busy" -> "Dolu"
      [] type = "Available" -> "Musait"
NumberTexts == {Digits(n) : n \in 1..(MaxEvents + 1)}
\* the titles a record of the given type and count may carry
GenericTitles(type, count) ==
    IF count # NoCount
    THEN {Digits(count) \o <<" ", GenericLabel(type)>>}
    ELSE IF type = "Surgery"
         THEN {<<GenericLabel(type), " (">> \o a \o <<"/">> \o b \o <<")">> :
                   a \in NumberTexts, b \in NumberTexts}
         ELSE {<<GenericLabel(type)>>}

\* C3: the title of every record of a response is fixed by the record's type and
\* count alone: the generic label of the type, that label with an "(i/n)" surgery
\* counter, or "N label" for a merged block; it holds no text of a raw title.
C3_TitlesGeneric ==
    \A k \in 1..Len(Body) : Body[k].title \in GenericTitles(Body[k].type, Body[k].count)

\* a response holds a merged block, a counted surgery and a single record, built
\* from events whose raw titles differ from every label
C3_Witness ==
    /\ Answered
    /\ \E k \in Blocks : Body[k].count = 2 /\ Body[k].title = <<"2", " ", "Kontrol">>
    /\ \E k \in Blocks : Body[k].title = <<"Ameliyat", " (", "1", "/", "1", ")">>
    /\ \E k \in Slots : Body[k].title = <<"Musait">>

\* the raw event a single (unmerged) record of the response was made from
RawOf(k) == CHOOSE e \in Range(upstream) : <<e.id>> = Body[k].id
\* the name a raw title carries: the text after the surgery glyph, or the whole title
NameIn(title) == trim(IF includes(title, <<KNIFE>>) THEN AfterKnife(title) ELSE title)
Surgeries == {k \in Blocks : Body[k].type = "Surgery"}

\* C4: the patientName of a record is never the full name of the raw title,
\* whatever the number of its tokens.
C4_NeverFullName ==
    \A k \in Surgeries : Body[k].patientName # NameIn(RawOf(k).summary)

\* What the route does expose: only Surgery records carry a patientName; for a
\* name of two or more tokens it is the first token, a space, the initial of the
\* second token and a full stop; a name of one token is exposed whole.
PatientNameShape ==
    \A k \in 1..Len(Body) :
        IF k \in Surgeries
        THEN LET name == NameIn(RawOf(k).summary)
                 tokens == splitSpaces(name)
                 shown == Body[k].patientName
                 n == Len(tokens[1])
             IN IF Len(tokens) >= 2
                THEN /\ Len(shown) = n + 3
                     /\ toLowerCase(SubSeq(shown, 1, n)) = toLowerCase(tokens[1])
                     /\ SubSeq(shown, n + 1, n + 3) = <<" ", UpperChar(tokens[2][1]), ".">>
                ELSE shown = tokens[1]
        ELSE Body[k].patientName = NoName

(***************************************************************************)
(* Properties of the classifiers                                           *)
(***************************************************************************)
\* C5: eventCategories.ts categorizeEvent is total: for every title, colour
\* (absent included) and start and end (absent or unparsable included) it
\* returns one category of the enumeration, and never Available.
C5_ClassifierTotal ==
    /\ categorizeEvent_eventCategories(call.title, call.color, call.start, call.end)
          \in Categories \ {"Available"}
    /\ verdict.eventCategories # NotReturned
          => verdict.eventCategories \in Categories \ {"Available"}

\* the classifier has returned its last-resort category for a call without
\* colour and times
C5_Witness ==
    /\ call.title = T_Plain /\ call.color = NoColor
    /\ call.start = NoTime /\ call.end = NoTime
    /\ verdict.eventCategories = "Busy"

\* the title meets a rule that eventCategories.ts tests before the colour
AboveColorRule(title) ==
    \/ includes(toLocaleLowerCaseTR(title), <<"x","x","x">>)
    \/ startsWith(toLocaleLowerCaseTR(title), <<"a","n","e","s","t">>)
\* the normalised title holds a blocked keyword, which classification.ts tests
\* before the colour
BlockedFirst(title) ==
    \E k \in blockedKeywords : includes(toLowerCase(normalizeName(title)), k)

\* C6 (as stated): for a red colour tag both classifiers return the cancelled /
\* ignored category, whatever the title.
C6_RedAlwaysCancelled ==
    call.color \in {"#dc2127", "#DC2127", "11"}
    => /\ verdict.eventCategories \in {NotReturned, "Cancelled"}
       /\ verdict.classification \in {NotReturned, "ignore"}

\* C6 (amended): for a red colour tag each classifier returns the cancelled /
\* ignored category unless the title meets a rule of higher precedence: "xxx" in
\* the title (Busy) or a title starting with "anest" (Anesthesia) in
\* eventCategories.ts, a blocked keyword (blocked) in classification.ts.
C6_RedCancelledBelowHigherRules ==
    call.color \in {"#dc2127", "#DC2127", "11"}
    => /\ verdict.eventCategories # NotReturned
            => IF AboveColorRule(call.title)
               THEN verdict.eventCategories \in {"Busy", "Anesthesia"}
               ELSE verdict.eventCategories = "Cancelled"
       /\ verdict.classification # NotReturned
            => IF BlockedFirst(call.title)
               THEN verdict.classification = "blocked"
               ELSE verdict.classification = "ignore"

\* both classifiers have answered a red call whose title names a surgery of 60
\* minutes with the cancelled / ignored category
C6_Witness ==
    /\ call.color = "11" /\ call.title = T_Surgery3
    /\ call.start = CallStart /\ call.end = CallStart + 60
    /\ verdict = [eventCategories |-> "Cancelled", classification |-> "ignore"]

(***************************************************************************)
(* Properties of the pipeline                                              *)
(***************************************************************************)
\* the raw event is classified as ignored
Ignored(e) ==
    /\ e.start # NoTime /\ e.end # NoTime
    /\ categorizeEvent(TitleOf(e), ColorOf(e), e.start, e.end) = "ignore"
\* the batch without its ignored events
WithoutIgnored(rawEvents) == SelectSeq(rawEvents, LAMBDA e : ~Ignored(e))
\* the records without the random part of the ids of the Available slots
Unnumbered(records) ==
    [k \in 1..Len(records) |->
        IF records[k].type = "Available" THEN [records[k] EXCEPT !.id = <<>>] ELSE records[k]]
\* the number of events a record stands for
Members(r) == IF r.type = "Available" THEN 0 ELSE IF r.count = NoCount THEN 1 ELSE r.count
RECURSIVE MemberTotal(_)
MemberTotal(records) ==
    IF records = <<>> THEN 0 ELSE Members(Head(records)) + MemberTotal(Tail(records))

\* C7: an ignored event reaches neither the merge nor the availability step: no
\* record of the response carries its id, the records stand for no more events
\* than the batch holds unignored ones, and the records and the Available slots
\* are those of a run on the batch without the ignored events.
C7_IgnoredNeverReachOutput ==
    Answered =>
        /\ \A e \in Range(upstream) :
              Ignored(e) => \A k \in 1..Len(Body) :
                               Body[k].id \notin {<<e.id>>, <<"group-", e.id>>}
        /\ MemberTotal(Body) <= Len(WithoutIgnored(upstream))
        /\ Unnumbered(Body)
             = Unnumbered(RouteOutput(processEvents(WithoutIgnored(upstream)),
                                      response.timeMin, 0))

\* a response to a batch with an ignored event between two checkups less than 15
\* minutes apart: the checkups are one block of two and no slot opens around the
\* ignored event
C7_Witness ==
    /\ Answered
    /\ \E e \in Range(upstream) : Ignored(e)
    /\ \E k \in Blocks :
          /\ Body[k].count = 2
          /\ \E e \in Range(upstream) :
                Ignored(e) /\ Body[k].start < e.start /\ e.end < Body[k].end

\* the merge loop has run on processedEvents and left mergedEvents
Merged == pc = "days"
\* events k and k + 1 of the input are of one non-Surgery category and the later
\* starts less than 15 minutes after the earlier ends
Close(k) ==
    /\ processedEvents[k].type # "Surgery"
    /\ processedEvents[k + 1].type = processedEvents[k].type
    /\ processedEvents[k + 1].start - processedEvents[k].end < 15
\* a..b is a maximal run of two or more events, each close to the one before it
MaximalRun(a, b) ==
    /\ a < b
    /\ \A k \in a..(b - 1) : Close(k)
    /\ a = 1 \/ ~Close(a - 1)
    /\ b = Len(processedEvents) \/ ~Close(b)
\* event k is close to neither neighbour
Apart(k) ==
    /\ processedEvents[k].type # "Surgery"
    /\ k = 1 \/ ~Close(k - 1)
    /\ k = Len(processedEvents) \/ ~Close(k)

\* C8: the merge loop emits a maximal run of n >= 2 consecutive non-Surgery
\* events of one category, each starting less than 15 minutes after the previous
\* one's end, as one block with count n and none of them on its own; an event
\* whose gaps to its neighbours of the same category are 15 minutes or more is
\* emitted as a record of its own with no count.
C8_RunsMergeByGap ==
    Merged =>
        /\ \A a, b \in 1..Len(processedEvents) :
              MaximalRun(a, b) =>
                 /\ \E m \in 1..Len(mergedEvents) :
                       /\ mergedEvents[m].count = b - a + 1
                       /\ mergedEvents[m].id = <<"group-">> \o processedEvents[a].id
                       /\ mergedEvents[m].start = processedEvents[a].start
                       /\ mergedEvents[m].type = processedEvents[a].type
                 /\ \A k \in a..b : processedEvents[k] \notin Range(mergedEvents)
        /\ \A k \in 1..Len(processedEvents) :
              Apart(k) => /\ processedEvents[k] \in Range(mergedEvents)
                          /\ processedEvents[k].count = NoCount

\* the loop has merged three checkups each 10 minutes after the previous one
\* into one block with count 3
C8_Witness ==
    /\ Merged
    /\ Len(processedEvents) = 3
    /\ MaximalRun(1, 3)
    /\ processedEvents[2].start - processedEvents[1].end = 10
    /\ Len(mergedEvents) = 1 /\ mergedEvents[1].count = 3

\* the civil dates the response covers: those of the days from timeMin's on
DisplayDates == {response.timeMin \div 1440 + j : j \in 0..(DisplayDays - 1)}
\* the instant of hh:mm Istanbul time on civil date x
OnDate(x, hh, mm) == x * 1440 + hh * 60 + mm - 180
\* the Available slots of the response on civil date x, as intervals
SlotsOn(x) ==
    {<<Body[k].start, Body[k].end>> : k \in {s \in Slots : CivilDate(Body[s].start) = x}}
SlotCountOn(x) == Cardinality({s \in Slots : CivilDate(Body[s].start) = x})
\* civil date x has no busy interval: no event of the response starts on it
Free(x) == \A k \in Blocks : CivilDate(Body[k].start) # x
\* what a free date offers
WholeWindow(x) ==
    IF x % 7 = 0 THEN {<<OnDate(x, 8, 0), OnDate(x, 9, 30)>>}
    ELSE IF x % 7 \in {2, 3, 4}
         THEN {<<OnDate(x, 8, 30), OnDate(x, 19, 30)>>, <<OnDate(x, 20, 30), OnDate(x, 21, 0)>>}
         ELSE {<<OnDate(x, 8, 30), OnDate(x, 21, 0)>>}

\* C9: for every day of the display range without a busy interval, days without
\* any event included, the response holds exactly one Available slot equal to
\* the day's business window, or on a blackout weekday (Tuesday to Thursday) the
\* two fragments of the window before 19:30 and after 20:30.
C9_FreeDayWholeWindow ==
    Answered =>
        \A x \in DisplayDates :
            Free(x) => /\ SlotsOn(x) = WholeWindow(x)
                       /\ SlotCountOn(x) = Cardinality(WholeWindow(x))

\* a response whose first day holds events and whose second day, a Wednesday,
\* holds none and is offered as the two fragments around the blackout
C9_Witness ==
    /\ Answered
    /\ \E k \in Blocks : CivilDate(Body[k].start) = response.timeMin \div 1440
    /\ \E x \in DisplayDates : x % 7 = 3 /\ Free(x) /\ SlotCountOn(x) = 2

\* C10: two runs of the pipeline on the same batch of events and the same
\* timeMin return identical records, ids included.  (The calendar does not
\* change between the requests of a behaviour, so two responses with status 200
\* answer the same batch.)
C10_RerunIdentical ==
    (/\ Answered
     /\ prevResponse.status = 200
     /\ prevResponse.timeMin = response.timeMin)
    => prevResponse.body = response.body

(***************************************************************************)
(* Properties of fetchCalendarEvents                                       *)
(***************************************************************************)
Calls == DOMAIN fetchers
\* call c started while a cache entry younger than the TTL existed
StartedFresh(c) ==
    /\ fetchers[c].atStart.present
    /\ fetchers[c].now - fetchers[c].atStart.timestamp < CACHE_TTL

\* C11: every call of fetchCalendarEvents that starts while a cache entry younger
\* than the 5-minute TTL exists returns that entry's data and issues no upstream
\* request, whatever other calls are running; two such calls that saw the same
\* entry return the same data.
C11_FreshCallsServedFromCache ==
    /\ \A c \in Calls :
          StartedFresh(c) => /\ fetchers[c].pc = "returned"
                             /\ fetchers[c].result = fetchers[c].atStart.data
                             /\ fetchers[c].issued = 0
    /\ \A c, d \in Calls :
          (StartedFresh(c) /\ StartedFresh(d) /\ fetchers[c].atStart = fetchers[d].atStart)
          => fetchers[c].result = fetchers[d].result

\* two calls started 4 minutes after the entry was stored, after the calendar
\* had changed at the provider, and both returned the entry's data
C11_Witness ==
    /\ Len(fetchers) = 2
    /\ \A c \in Calls : /\ StartedFresh(c)
                        /\ fetchers[c].now - fetchers[c].atStart.timestamp = CACHE_TTL - 1
                        /\ fetchers[c].pc = "returned"
                        /\ fetchers[c].result # <<>>
    /\ upstream # CalendarVersions[1]

\* the upstream fetch of call c failed
Failed(c) == fetchers[c].failed /\ fetchers[c].atCatch.taken

\* C12 (as stated): when the upstream fetch fails, the call returns the stale
\* cache entry's data if an entry exists, otherwise the on-disk snapshot if one
\* exists, and raises only if neither exists.
C12_FallbackThenRaise ==
    \A c \in Calls :
        Failed(c) =>
            LET cache == fetchers[c].atCatch.cache
                file == fetchers[c].atCatch.file
            IN IF cache.present
               THEN fetchers[c].pc = "returned" /\ fetchers[c].result = cache.data
               ELSE IF file.exists
                    THEN fetchers[c].pc = "returned" /\ fetchers[c].result = file.data
                    ELSE fetchers[c].pc = "thrown"

\* C12 (amended): when the upstream fetch fails, the call returns the stale cache
\* entry's data if an entry exists, otherwise the on-disk snapshot if one exists
\* and can be read and parsed, and raises the upstream error if there is no entry
\* and the snapshot is missing or unreadable.
C12_FallbackReadableThenRaise ==
    \A c \in Calls :
        Failed(c) =>
            LET cache == fetchers[c].atCatch.cache
                file == fetchers[c].atCatch.file
            IN IF cache.present
               THEN fetchers[c].pc = "returned" /\ fetchers[c].result = cache.data
               ELSE IF file.exists /\ file.readable
                    THEN fetchers[c].pc = "returned" /\ fetchers[c].result = file.data
                    ELSE fetchers[c].pc = "thrown"

\* one failed call has returned the stale entry, and after a restart a second
\* failed call has returned the snapshot on disk
C12_Witness ==
    /\ Len(fetchers) = 2
    /\ Failed(1) /\ fetchers[1].atCatch.cache.present /\ ~StartedFresh(1)
    /\ fetchers[1].pc = "returned"
    /\ Failed(2) /\ ~fetchers[2].atCatch.cache.present /\ fetchers[2].atCatch.file.exists
    /\ fetchers[2].pc = "returned" /\ fetchers[2].result # <<>>

\* call c has returned what it fetched and processed itself
Fetched(c) == fetchers[c].pc = "returned" /\ ~fetchers[c].failed /\ fetchers[c].issued > 0
\* the events of a batch without a start or without an end
Malformed(rawEvents) == {e \in Range(rawEvents) : e.start = NoTime \/ e.end = NoTime}
WellFormed(rawEvents) == SelectSeq(rawEvents, LAMBDA e : e.start # NoTime /\ e.end # NoTime)
\* the ids of the records the route returns for what a call returned, for a
\* request from Tuesday on
RouteIds(data) ==
    LET out == RouteOutput(data, 2 * DayMinutes, 0)
    IN {out[k].id : k \in 1..Len(out)}

\* C13: a raw event without a start or without an end is dropped before
\* classification: it is not passed to categorizeEvent, appears in no record the
\* call returns nor in the route's output, and causes no error, while the other
\* events of the batch are processed as if it were not there.
C13_MalformedDroppedSilently ==
    /\ \A c \in Calls : ~fetchers[c].failed => fetchers[c].pc # "thrown"
    /\ \A c \in Calls :
          Fetched(c) =>
             LET raw == fetchers[c].allEvents
                 bad == Malformed(raw)
             IN /\ Range(fetchers[c].classified) \cap bad = {}
                /\ fetchers[c].classified = WellFormed(raw)
                /\ \A k \in 1..Len(fetchers[c].result) :
                      fetchers[c].result[k].id \notin {e.id : e \in bad}
                /\ fetchers[c].result = processEvents(WellFormed(raw))
                /\ \A e \in bad : RouteIds(fetchers[c].result)
                                     \cap {<<e.id>>, <<"group-", e.id>>} = {}

\* one call has fetched a batch with an event without a start and returned its
\* other kept event, another has fetched a batch with an event without an end
C13_Witness ==
    /\ Len(fetchers) = 2
    /\ Fetched(1) /\ MalformedStart \in Range(fetchers[1].allEvents)
    /\ Len(fetchers[1].allEvents) = 3 /\ Len(fetchers[1].result) = 1
    /\ Fetched(2) /\ MalformedEnd \in Range(fetchers[2].allEvents)
    /\ Len(fetchers[2].result) = 1

\* the events of the pages, in the order the pages arrived
RECURSIVE Concat(_)
Concat(pages) == IF pages = <<>> THEN <<>> ELSE Head(pages) \o Concat(Tail(pages))
\* every page but the last carried a next-page token, the last carried none
Drained(tokens) ==
    /\ tokens # <<>>
    /\ tokens[Len(tokens)] = 0
    /\ \A p \in 1..(Len(tokens) - 1) : tokens[p] # 0
\* call c ends its page loop in this step
Completes(c) ==
    /\ c \in Calls
    /\ fetchers[c].pc = "paging"
    /\ fetchers'[c].pc = "returned"
    /\ ~fetchers'[c].failed

\* C19: a call requests the next page as long as the last response carried a
\* next-page token; it classifies, caches and returns only after a response
\* without a token, and what it caches and returns is built from the events of
\* every page, in page order.
C19_PagesDrainedBeforeProcessing ==
    /\ [](\A c \in Calls :
            /\ fetchers[c].allEvents = Concat(fetchers[c].pages)
            /\ Len(fetchers[c].tokens) = Len(fetchers[c].pages)
            /\ fetchers[c].pc = "paging"
                  => /\ \A p \in 1..Len(fetchers[c].tokens) : fetchers[c].tokens[p] # 0
                     /\ fetchers[c].issued = Len(fetchers[c].pages) + 1
                     /\ fetchers[c].classified = <<>> /\ fetchers[c].result = <<>>
            /\ Fetched(c)
                  => /\ Drained(fetchers[c].tokens)
                     /\ fetchers[c].issued = Len(fetchers[c].pages)
                     /\ fetchers[c].result = processEvents(Concat(fetchers[c].pages)))
    /\ [][eventsCache' # eventsCache /\ eventsCache'.present
             => \E c \in Calls :
                   /\ Completes(c)
                   /\ Drained(fetchers'[c].tokens)
                   /\ eventsCache'.data = processEvents(Concat(fetchers'[c].pages))]_vars

\* one call has drained two pages and returned the kept event of the three it
\* read, while another call has read its first page and waits for the second
C19_Witness ==
    /\ Len(fetchers) = 2
    /\ \E c, d \in Calls :
          /\ Fetched(c) /\ fetchers[c].tokens = <<3, 0>>
          /\ Len(Concat(fetchers[c].pages)) = 3 /\ Len(fetchers[c].result) = 1
          /\ eventsCache.data = fetchers[c].result
          /\ fetchers[d].pc = "paging" /\ fetchers[d].tokens = <<3>>

(***************************************************************************)
(* Properties of the availability slots and of the merge                   *)
(***************************************************************************)
\* C14: every Available slot of a response, the fragments left by the blackout
\* included, is at least 15 minutes long.
C14_SlotsAtLeast15Minutes ==
    \A a \in Slots : Body[a].end - Body[a].start >= 15

\* a Tuesday response in which the free time before an event at 20:40 is cut at
\* the blackout, its 10 minutes after the blackout are dropped, and the 15 minutes
\* from the event's end to 21:00 are offered
C14_Witness ==
    /\ Answered
    /\ \E b \in Blocks : CivilMinute(Body[b].start) = 20 * 60 + 40 /\ Weekday(Body[b].start) = 2
    /\ \E a \in Slots : CivilMinute(Body[a].end) = 19 * 60 + 30
    /\ \A a \in Slots : Weekday(Body[a].start) = 2 => CivilMinute(Body[a].start) # 20 * 60 + 30
    /\ \E a \in Slots : /\ CivilMinute(Body[a].start) = 20 * 60 + 45
                        /\ Body[a].end - Body[a].start = 15

\* the busy interval of block k of the response
BusyFrom(k) == Body[k].start - (IF Body[k].type = "Surgery" THEN 10 ELSE 0)
BlocksOn(x) == {k \in Blocks : CivilDate(Body[k].start) = x}
\* the business window of civil date x
WindowStart(x) == IF x % 7 = 0 THEN OnDate(x, 8, 0) ELSE OnDate(x, 8, 30)
WindowEnd(x) == IF x % 7 = 0 THEN OnDate(x, 9, 30) ELSE OnDate(x, 21, 0)
\* instant m of date x lies in a busy interval
Covered(x, m) == \E k \in BlocksOn(x) : BusyFrom(k) <= m /\ m < Body[k].end
\* the candidate free windows of date x: the maximal intervals of its business
\* window that meet no busy interval and are at least 15 minutes long
Candidates(x) ==
    {w \in ({WindowStart(x)} \cup {Body[k].end : k \in BlocksOn(x)})
           \X ({WindowEnd(x)} \cup {BusyFrom(k) : k \in BlocksOn(x)}) :
        /\ WindowStart(x) <= w[1] /\ w[2] <= WindowEnd(x)
        /\ w[2] - w[1] >= 15
        /\ \A k \in BlocksOn(x) : Body[k].end <= w[1] \/ BusyFrom(k) >= w[2]
        /\ w[1] = WindowStart(x) \/ Covered(x, w[1] - 1)
        /\ w[2] = WindowEnd(x) \/ Covered(x, w[2])}

\* C15: on a Tuesday, Wednesday or Thursday no Available slot intersects the
\* blackout 19:30-20:30 (Istanbul); on every other weekday each candidate free
\* window is emitted unchanged, and nothing else is.
C15_BlackoutMidweekOnly ==
    /\ \A a \in Slots :
          Weekday(Body[a].start) \in {2, 3, 4}
          => \/ CivilMinute(Body[a].end) <= 19 * 60 + 30
             \/ CivilMinute(Body[a].start) >= 20 * 60 + 30
    /\ Answered =>
          \A x \in DisplayDates :
              x % 7 \notin {2, 3, 4} => /\ SlotsOn(x) = Candidates(x)
                                        /\ SlotCountOn(x) = Cardinality(Candidates(x))

\* a first response offered Monday's window 08:30-21:00 whole and Sunday's free
\* time between two events; the second offers Tuesday's free time before an
\* event at 20:50 as the fragments 08:30-19:30 and 20:30-20:50
C15_Witness ==
    /\ Answered
    /\ prevResponse.status = 200
    /\ \E k \in 1..Len(prevResponse.body) :
          /\ prevResponse.body[k].type = "Available"
          /\ Weekday(prevResponse.body[k].start) = 1
          /\ prevResponse.body[k].end - prevResponse.body[k].start = 12 * 60 + 30
    /\ \E b \in Blocks : Weekday(Body[b].start) = 2 /\ CivilMinute(Body[b].start) = 20 * 60 + 50
    /\ \E a \in Slots : Weekday(Body[a].start) = 2 /\ CivilMinute(Body[a].end) = 19 * 60 + 30
    /\ \E a \in Slots : /\ Weekday(Body[a].start) = 2
                        /\ CivilMinute(Body[a].start) = 20 * 60 + 30
                        /\ CivilMinute(Body[a].end) = 20 * 60 + 50


(***************************************************************************)
(* Properties of the two classifiers called directly                       *)
(***************************************************************************)
\* C16: eventCategories.ts categorizeEvent returns Control for "K2", and for
\* every title with the checkup prefix that the rules on the text alone make a
\* Control, whatever the start and the end of the event are.
C16_CheckupWhateverDuration ==
    (/\ verdict.eventCategories # NotReturned
     /\ CheckupPrefix(call.title)
     /\ categorizeEvent_eventCategories(call.title, call.color, NoTime, NoTime) = "Control")
    => verdict.eventCategories = "Control"

\* the title holds the keyword in some letter case
Mentions(title, keyword) == includes(toLowerCase(title), keyword)

\* C17: classification.ts categorizeEvent matches its keywords in any letter
\* case: a title holding 'kontrol' anywhere that no earlier rule takes is a
\* checkup, and a title holding 'ameliyat' that no earlier rule takes and that
\* lasts at least 45 minutes is a surgery.
C17_KeywordsAnyCase ==
    (/\ verdict.classification # NotReturned
     /\ verdict.classification \notin {"blocked", "ignore"})
    => /\ (/\ Mentions(call.title, KW_AMELIYAT)
           /\ HasDuration(call.start, call.end)
           /\ DurationMinutes(call.start, call.end) >= SurgeryThreshold)
          => verdict.classification = "surgery"
       /\ (/\ Mentions(call.title, KW_KONTROL)
           /\ ~Mentions(call.title, KW_AMELIYAT)
           /\ ~Mentions(call.title, KW_SURGERY)
           /\ ~includes(call.title, <<KNIFE>>)
           /\ ~TimePrefix(call.title))
          => verdict.classification = "checkup"


(***************************************************************************)
(* Properties of the merge loop and of createSummaryBlock                  *)
(***************************************************************************)
\* the events of processedEvents that block m of mergedEvents combines
MembersOf(m) ==
    {k \in 1..Len(processedEvents) :
        \E a \in 1..Len(processedEvents) :
            /\ mergedEvents[m].id = <<"group-">> \o processedEvents[a].id
            /\ a <= k /\ k < a + mergedEvents[m].count}

\* C18: merging is per calendar day: no summary block combines events whose
\* starts fall on different calendar days of Europe/Istanbul.
C18_MergePerCalendarDay ==
    Merged =>
        \A m \in 1..Len(mergedEvents) :
            mergedEvents[m].count # NoCount
            => \A j, k \in MembersOf(m) :
                  CivilDate(processedEvents[j].start) = CivilDate(processedEvents[k].start)


\* the merge loop pushes createSummaryBlock(buffer) in this step
Flushes == pc = "merge" /\ buffer # <<>> /\ Len(mergedEvents') > Len(mergedEvents)
\* the block pushed by the step
Flushed == mergedEvents'[Len(mergedEvents) + 1]

\* C20: a block made by createSummaryBlock from a buffer of two or more events
\* starts at the first member's start, ends at the last member's end and counts
\* the members; a buffer of one event comes back as that event, unchanged and
\* without a count.
C20_SummaryBlockOfBuffer ==
    [][Flushes =>
          IF Len(buffer) >= 2
          THEN /\ Flushed.start = buffer[1].start
               /\ Flushed.end = buffer[Len(buffer)].end
               /\ Flushed.count = Len(buffer)
          ELSE /\ Flushed = buffer[1]
               /\ Flushed.count = NoCount]_vars

\* the loop has flushed a buffer of two events as a block that ends when the
\* second ends, and a buffer of one event as that event
C20_Witness ==
    /\ Merged
    /\ Len(processedEvents) = 3
    /\ \E m \in 1..Len(mergedEvents) :
          /\ mergedEvents[m].count = 2
          /\ \E a \in 1..Len(processedEvents) :
                /\ mergedEvents[m].id = <<"group-">> \o processedEvents[a].id
                /\ mergedEvents[m].end = processedEvents[a + 1].end
                /\ mergedEvents[m].end > processedEvents[a].end
    /\ \E m \in 1..Len(mergedEvents) :
          /\ mergedEvents[m].count = NoCount
          /\ mergedEvents[m].type # "Surgery"
          /\ mergedEvents[m] \in Range(processedEvents)


(***************************************************************************)
(* Properties of the busy intervals and of the free windows of a day       *)
(***************************************************************************)
\* the display days of the request being served
MergeDays == Range(displayDays(timeMin))
\* busyIntervals of display day `day` after the sort, and mergedBusy
BusyOf(day) ==
    LET dayEvents == EventsOfDay(mergedEvents, day)
    IN SortByStart([k \in 1..Len(dayEvents) |-> BusyInterval(dayEvents[k])])
RunsOf(day) == Flatten(BusyOf(day))
\* run r holds interval p
Holds(r, p) == r.start <= p.start /\ p.end <= r.end
\* the runs cover the union of the intervals and nothing more: every interval
\* lies in a run, and a run starts where an interval starts, ends where one
\* ends, and has no hole
CoversExactly(runs, busy) ==
    /\ \A p \in Range(busy) : \E r \in Range(runs) : Holds(r, p)
    /\ \A r \in Range(runs) :
          /\ \E p \in Range(busy) : p.start = r.start
          /\ \E p \in Range(busy) : p.end = r.end
          /\ \A p \in Range(busy) :
                (Holds(r, p) /\ p.end < r.end)
                => \E q \in Range(busy) : q.start <= p.end /\ p.end < q.end

\* C21 as stated: the flattening sweep yields maximal disjoint runs: the runs
\* are in increasing order, cover exactly the union of the intervals, and two
\* intervals that overlap or are adjacent lie in one run.
C21_RunsJoinOverlappingAndAdjacent ==
    Merged =>
        \A day \in MergeDays :
            /\ \A a, b \in 1..Len(RunsOf(day)) :
                  a < b => RunsOf(day)[a].end < RunsOf(day)[b].start
            /\ CoversExactly(RunsOf(day), BusyOf(day))
            /\ \A p, q \in Range(BusyOf(day)) :
                  (p.start <= q.end /\ q.start <= p.end)
                  => \E r \in Range(RunsOf(day)) : Holds(r, p) /\ Holds(r, q)

\* C21 as the sweep behaves: the runs are in increasing order and cover exactly
\* the union of the intervals; two intervals that overlap lie in one run, and a
\* run ends no later than the next one starts, so that two intervals of which
\* one ends exactly where the other starts, and which no third interval
\* bridges, stay in two runs that touch.
C21_RunsJoinOverlapping ==
    Merged =>
        \A day \in MergeDays :
            /\ \A a, b \in 1..Len(RunsOf(day)) :
                  a < b => RunsOf(day)[a].end <= RunsOf(day)[b].start
            /\ CoversExactly(RunsOf(day), BusyOf(day))
            /\ \A p, q \in Range(BusyOf(day)) :
                  (p.start < q.end /\ q.start < p.end)
                  => \E r \in Range(RunsOf(day)) : Holds(r, p) /\ Holds(r, q)
            /\ \A p, q \in Range(BusyOf(day)) :
                  (/\ p.end = q.start
                   /\ \A o \in Range(BusyOf(day)) : ~(o.start < p.end /\ p.end < o.end))
                  => \E a \in 1..(Len(RunsOf(day)) - 1) :
                        /\ RunsOf(day)[a].end = p.end
                        /\ RunsOf(day)[a + 1].start = q.start

\* a day with three busy intervals: the first ends where the second starts, the
\* third starts inside the second; the sweep has made two runs that touch
C21_Witness ==
    /\ Merged
    /\ \E day \in MergeDays :
          /\ Len(BusyOf(day)) = 3
          /\ BusyOf(day)[1].end = BusyOf(day)[2].start
          /\ BusyOf(day)[3].start < BusyOf(day)[2].end
          /\ BusyOf(day)[3].end > BusyOf(day)[2].end
          /\ Len(RunsOf(day)) = 2
          /\ RunsOf(day)[2].end = BusyOf(day)[3].end


\* what no slot of civil date x may meet: the busy intervals of the records that
\* start on x and, from Tuesday to Thursday, the blackout 19:30-20:30
Obstacles(x) ==
    {<<BusyFrom(k), Body[k].end>> : k \in BlocksOn(x)}
    \cup (IF x % 7 \in {2, 3, 4} THEN {<<OnDate(x, 19, 30), OnDate(x, 20, 30)>>} ELSE {})
\* instant m lies in an obstacle of date x
Taken(x, m) == \E o \in Obstacles(x) : o[1] <= m /\ m < o[2]
\* the maximal intervals of at least 15 minutes inside the business window of
\* date x that meet no obstacle
MaximalFree(x) ==
    {w \in ({WindowStart(x)} \cup {o[2] : o \in Obstacles(x)})
           \X ({WindowEnd(x)} \cup {o[1] : o \in Obstacles(x)}) :
        /\ WindowStart(x) <= w[1] /\ w[2] <= WindowEnd(x)
        /\ w[2] - w[1] >= 15
        /\ \A o \in Obstacles(x) : o[2] <= w[1] \/ o[1] >= w[2]
        /\ w[1] = WindowStart(x) \/ Taken(x, w[1] - 1)
        /\ w[2] = WindowEnd(x) \/ Taken(x, w[2])}

\* C22: availability is the exact complement of busy time: for every display
\* day, every maximal interval of at least 15 minutes inside the business
\* window, outside the blackout and outside every busy interval of that day
\* (Surgery extended 10 minutes earlier) is exactly one Available slot with
\* those bounds, and the day has no other slot.
C22_SlotsAreMaximalFreeIntervals ==
    Answered =>
        \A x \in DisplayDates :
            /\ SlotsOn(x) = MaximalFree(x)
            /\ SlotCountOn(x) = Cardinality(MaximalFree(x))

\* a Tuesday with one surgery in the afternoon is offered as three slots: up to
\* 10 minutes before the surgery, from its end to 19:30, and 20:30-21:00
C22_Witness ==
    /\ Answered
    /\ \E x \in DisplayDates :
          /\ x % 7 = 2
          /\ SlotCountOn(x) = 3
          /\ \E k \in BlocksOn(x) :
                /\ Body[k].type = "Surgery"
                /\ <<OnDate(x, 8, 30), Body[k].start - 10>> \in SlotsOn(x)
                /\ <<Body[k].end, OnDate(x, 19, 30)>> \in SlotsOn(x)
          /\ <<OnDate(x, 20, 30), OnDate(x, 21, 0)>> \in SlotsOn(x)


(***************************************************************************)
(* Properties of normalizeName                                             *)
(***************************************************************************)
\* the title is made of letters and spaces only and holds none of the words
\* that normalizeName cuts at or removes, so that it carries no annotation
PlainName(title) ==
    LET n == toLocaleLowerCaseTR(title)
    IN /\ \A k \in 1..Len(title) : IsLetter(title[k]) \/ IsSpace(title[k])
       /\ CutAt(n) = n
       /\ ~includes(n, IPTAL_KEY)
\* the words of the title as normalizeName writes a word it keeps
WordsAsKept(title) ==
    LET words == splitSpaces(trim(FoldAll(toLocaleLowerCaseTR(title))))
    IN {capitalizeTR(words[k]) : k \in {j \in 1..Len(words) : KeepWord(words[j])}}

\* C23: normalizeName removes a phone annotation only when 'tel' is a keyword
\* of its own followed by digits: a name token that contains or ends with the
\* letters 'tel' is kept whole in the normalized name.
C23_NameTokenWithTelKept ==
    (verdict.classification # NotReturned /\ PlainName(call.title))
    => \A w \in WordsAsKept(call.title) :
          (includes(toLowerCase(w), TEL_KEY) /\ toLowerCase(w) # TEL_KEY)
          => w \in Range(splitSpaces(normalizeName(call.title)))


(***************************************************************************)
(* Properties of the merge loop, step by step                              *)
(***************************************************************************)
\* the merge loop is running or has run
Merging == pc \in {"merge", "days"}
\* the events the loop has taken from processedEvents so far
EventsTaken == IF pc = "merge" THEN i - 1 ELSE Len(processedEvents)
\* the number of events that the records before record m stand for
Before(m) == MemberTotal(Upto(mergedEvents, m - 1))

\* C24: the merge loop neither loses nor duplicates an event: at every step the
\* records pushed so far, in order, followed by the pending buffer stand for
\* exactly the events taken so far, in their order, each once; a record without
\* count is the event itself and a block stands for count consecutive events.
\* At the end the counts (1 for a record without count) add up to the number of
\* events that entered the loop.
C24_MergeKeepsEveryEventOnce ==
    Merging =>
        /\ MemberTotal(mergedEvents) + Len(buffer) = EventsTaken
        /\ \A m \in 1..Len(mergedEvents) :
              IF mergedEvents[m].count = NoCount
              THEN mergedEvents[m] = processedEvents[Before(m) + 1]
              ELSE /\ mergedEvents[m].count >= 2
                   /\ mergedEvents[m].id = <<"group-">> \o processedEvents[Before(m) + 1].id
                   /\ mergedEvents[m].start = processedEvents[Before(m) + 1].start
                   /\ mergedEvents[m].end
                        = processedEvents[Before(m) + mergedEvents[m].count].end
        /\ \A k \in 1..Len(buffer) :
              buffer[k] = processedEvents[MemberTotal(mergedEvents) + k]

\* the loop has turned three events into a block of two followed by the third
\* event on its own
C24_Witness ==
    /\ Merged
    /\ Len(processedEvents) = 3
    /\ Len(mergedEvents) = 2
    /\ mergedEvents[1].count = 2
    /\ mergedEvents[2] = processedEvents[3]
    /\ MemberTotal(mergedEvents) = 3


\* the events of processedEvents that record m of mergedEvents stands for
Span(m) == (Before(m) + 1)..(Before(m) + Members(mergedEvents[m]))

\* C25: at every step of the merge loop the events of the pending buffer are of
\* one category and none is a Surgery; hence a summary block has the category
\* of each of its members (the 'Control' fallback for mixed blocks is never
\* taken) and every Surgery taken so far is a record of its own.
C25_BufferOfOneCategory ==
    Merging =>
        /\ \A j, k \in 1..Len(buffer) :
              buffer[j].type = buffer[k].type /\ buffer[k].type # "Surgery"
        /\ \A m \in 1..Len(mergedEvents) :
              mergedEvents[m].count # NoCount
              => \A k \in Span(m) : /\ processedEvents[k].type = mergedEvents[m].type
                                    /\ processedEvents[k].type # "Surgery"
        /\ \A k \in 1..EventsTaken :
              processedEvents[k].type = "Surgery"
              => \E m \in 1..Len(mergedEvents) :
                    mergedEvents[m] = processedEvents[k] /\ Span(m) = {k}

\* the loop holds two checkups in its buffer and the next event, of another
\* category, starts less than 15 minutes after the second
C25_Witness ==
    /\ pc = "merge"
    /\ i = 3 /\ Len(processedEvents) = 3
    /\ Len(buffer) = 2
    /\ processedEvents[3].type # buffer[2].type
    /\ processedEvents[3].start - buffer[2].end < MinGap


(***************************************************************************)
(* Properties of the slots against the events before merging               *)
(***************************************************************************)
\* C26: no Available slot intersects the interval of an individual event of
\* that day as it entered the merge (cancelled events never enter it): a
\* summary block covers each of its members, also when members overlap or an
\* earlier member ends after the last one.
C26_SlotsAvoidEveryMember ==
    Answered =>
        \A a \in Slots :
            \A k \in 1..Len(processedEvents) :
                CivilDate(processedEvents[k].start) = CivilDate(Body[a].start)
                => \/ Body[a].end <= processedEvents[k].start
                   \/ Body[a].start >= processedEvents[k].end


\* C27: a busy record blocks availability on every calendar day it covers: no
\* Available slot meets the interval of a busy record of the response that
\* started on an earlier day.
C27_SlotsAvoidEarlierDaysRecords ==
    Answered =>
        \A a \in Slots :
            \A k \in Blocks :
                CivilDate(Body[k].start) < CivilDate(Body[a].start)
                => \/ Body[a].end <= Body[k].start
                   \/ Body[a].start >= Body[k].end


StepOf(c) == c \in DOMAIN fetchers' /\ (c \notin DOMAIN fetchers \/ fetchers'[c] # fetchers[c])
\* call c fails in this step
Fails(c) == c \in Calls /\ ~fetchers[c].failed /\ fetchers'[c].failed

\* C29: a refresh that fails on any page leaves the cache entry (data and
\* timestamp) and the snapshot on disk as they were: no step of a call that
\* does not complete its refresh, the failing step included, changes either,
\* so the events of the pages already received are neither cached nor written;
\* and when no other call has refreshed, the entry the failing call finds in
\* its catch block is the entry it saw when it started.
C29_FailedRefreshLeavesCacheAndFile ==
    /\ [][\A c \in 1..MaxRequests :
             (StepOf(c) /\ (Fails(c) \/ fetchers'[c].pc = "paging"))
             => (eventsCache' = eventsCache /\ backupFile' = backupFile)]_vars
    /\ [](\A c \in Calls :
             (Failed(c) /\ \A d \in Calls \ {c} : ~Fetched(d))
             => fetchers[c].atCatch.cache = fetchers[c].atStart)

\* a call that found a cache entry received a page of two events and failed on
\* the second page: the entry and the file still hold the earlier data
C29_Witness ==
    \E c \in Calls :
        /\ Failed(c)
        /\ Len(fetchers[c].pages) = 1
        /\ Len(fetchers[c].allEvents) = 2
        /\ fetchers[c].atStart.present
        /\ eventsCache = fetchers[c].atStart
        /\ backupFile.readable /\ backupFile.data = eventsCache.data
        /\ \A d \in Calls \ {c} : ~Fetched(d)


(***************************************************************************)
(* The calls side by side, with every awaited calendar.events.list settling *)
(***************************************************************************)
\* the calendar.events.list that call c awaits settles: it rejects, or a page
\* arrives
Settles(c) == ListFails(c) \/ \E outcome \in WriteOutcomes : PageArrives(c, outcome)

SpecFetchLive ==
    /\ InitFetch
    /\ [][NextFetch]_vars
    /\ \A c \in 1..MaxRequests : WF_vars(c \in DOMAIN fetchers /\ Settles(c))

\* call c awaits a calendar.events.list
Paging(c) == c \in Calls /\ fetchers[c].pc = "paging"
\* call c has ended: it returned what it fetched, or a request of it was rejected
Settled(c) == c \in Calls /\ (Fetched(c) \/ Failed(c))

\* C30: serving stale or fallback data never suppresses later refreshes: every
\* call that starts without a cache entry younger than the TTL issues a
\* calendar.events.list, whatever earlier calls returned; such a call, unless
\* the provider rejects a request of it, eventually returns what it fetched;
\* and when it does the cache entry is replaced by that data, stamped with the
\* call's own start time.
C30_StaleEntryAlwaysRefetched ==
    /\ [](\A c \in Calls : ~StartedFresh(c) => fetchers[c].issued >= 1)
    /\ [][\A c \in 1..MaxRequests :
             Completes(c)
             => /\ eventsCache' = [present |-> TRUE, data |-> fetchers'[c].result,
                                   timestamp |-> fetchers[c].now]
                /\ fetchers'[c].result = processEvents(Concat(fetchers'[c].pages))]_vars
    /\ \A c \in 1..MaxRequests : Paging(c) ~> Settled(c)

\* a call that found an entry older than the TTL failed and returned the stale
\* data; the next call fetched again and replaced the entry
C30_Witness ==
    /\ Len(fetchers) = 2
    /\ Failed(1)
    /\ fetchers[1].atStart.present
    /\ fetchers[1].pc = "returned"
    /\ fetchers[1].result = fetchers[1].atStart.data
    /\ fetchers[2].atStart = fetchers[1].atStart
    /\ Fetched(2)
    /\ eventsCache.timestamp = fetchers[2].now
    /\ eventsCache.data = fetchers[2].result
    /\ eventsCache.data # fetchers[1].result

=============================================================================
